---------------------------- MODULE Spec2Model ----------------------------
(***************************************************************************)
(* Model of the diagnostic core of diag-transmission:                      *)
(*   - my_package/diagnostic_model.py : Question, Domain, SectorProfile,   *)
(*     load_questions, DOMAINS_COMMON, SECTORS, build_domains_for_sector   *)
(*   - my_package/scoring.py : score_question, score_domain, score_global  *)
(*   - my_package/questionnaire.py : classify_domain, extract_weak_points, *)
(*     extract_strong_points, generate_empty_answers,                      *)
(*     load_answers_from_file                                              *)
(*   - dashboard.py : classify_score                                       *)
(*                                                                         *)
(* Python objects live in a heap (a sequence of objects, an address is an  *)
(* index into it), so that copying and aliasing are distinguishable: a     *)
(* Domain object refers to a list object, which refers to Question         *)
(* objects.  A dict is a sequence of [k, v] entries in insertion order.    *)
(***************************************************************************)
EXTENDS Integers, Sequences, FiniteSets, TLC

VARIABLES
    heap,            \* the Python heap: Seq of objects
    DOMAINS_COMMON,  \* module global: dict domain id -> address of a Domain
    SECTORS,         \* module global: dict sector id -> address of a SectorProfile
    loaded,          \* value of the two catalogues right after load_questions
    calls,           \* build_domains_for_sector calls made so far: the argument, how the
                     \* call ended, the dict returned, its value at the return, and
                     \* the number of caller mutations made before the call
                     \* (under SpecInterleaved: the frames of the calls under way)
    nmut,            \* number of caller mutations made so far
    question,        \* score_question: the question argument
    answer,          \* score_question: the answer argument
    result,          \* score_question: what the call produced
    domain_arg,      \* score_domain: the domain argument
    answers_arg,     \* score_domain: the answers argument
    domain_score,    \* score_domain: what the call produced
    domains_arg,     \* the analysis: the domains a build returned
    all_answers_arg, \* the analysis: the answer set loaded
    domain_scores,   \* what score_global produced
    weak_points,     \* what extract_weak_points produced
    strong_points,   \* what extract_strong_points produced
    score_arg,       \* classify_domain, classify_score: the score argument
    level,           \* classify_domain, classify_score: what the call returned
    template,        \* what generate_empty_answers produced, and for which build
    files,           \* the file system: dict path -> content of the file
    path_arg,        \* load_answers_from_file: the path argument
    loaded_answers,  \* what load_answers_from_file produced
    new_answers,     \* the analysis run again: the answer set, one answer replaced
    new_scores       \* the analysis run again: what score_global produced

vars == <<heap, DOMAINS_COMMON, SECTORS, loaded, calls, nmut, question, answer, result,
          domain_arg, answers_arg, domain_score,
          domains_arg, all_answers_arg, domain_scores, weak_points, strong_points,
          score_arg, level, template, files, path_arg, loaded_answers,
          new_answers, new_scores>>

buildVars == <<heap, DOMAINS_COMMON, SECTORS, loaded, calls, nmut>>
scoreVars == <<question, answer, result>>
domainVars == <<domain_arg, answers_arg, domain_score>>
analysisVars == <<domains_arg, all_answers_arg, domain_scores, weak_points, strong_points>>
classifyVars == <<score_arg, level>>
templateVars == <<template>>
loadVars == <<files, path_arg, loaded_answers>>
replayVars == <<new_answers, new_scores>>

-----------------------------------------------------------------------------
(* Bounds of the model *)

MaxBuilds == 2
MaxMutations == 1

-----------------------------------------------------------------------------
(* Python values *)

None == [t |-> "None"]
PyStr(s) == [t |-> "str", v |-> s]
PyInt(n) == [t |-> "int", v |-> n]
PyBool(b) == [t |-> "bool", v |-> b]
PyFloat(tenths) == [t |-> "float", special |-> "finite", v |-> tenths]
PyFloatSpecial(x) == [t |-> "float", special |-> x, v |-> 0]   \* "nan", "inf", "-inf"
PyList(items) == [t |-> "list", v |-> items]

(* dict: a sequence of [k, v] entries in insertion order, keys distinct *)
DictKeys(d) == {d[i].k : i \in 1..Len(d)}
DictHas(d, key) == \E i \in 1..Len(d) : d[i].k = key
DictGet(d, key) == d[CHOOSE i \in 1..Len(d) : d[i].k = key].v
DictPut(d, key, val) ==
    IF DictHas(d, key)
    THEN [i \in 1..Len(d) |-> IF d[i].k = key THEN [k |-> key, v |-> val] ELSE d[i]]
    ELSE Append(d, [k |-> key, v |-> val])

-----------------------------------------------------------------------------
(* The dataclasses, as heap objects.  A weight is the Python number the
   catalogue gives: an int, or a float written in tenths (1.0 by default) *)

Question(id, type, text, weight) ==
    [kind |-> "Question", id |-> id, type |-> type, text |-> text, weight |-> weight]

Domain(id, label, description, questions) ==
    [kind |-> "Domain", id |-> id, label |-> label,
     description |-> description, questions |-> questions]

SectorProfile(id, label, extra_questions) ==
    [kind |-> "SectorProfile", id |-> id, label |-> label,
     extra_questions |-> extra_questions]

List(items) == [kind |-> "list", items |-> items]

(* The value of a Question object: its fields *)
QuestionValue(h, a) ==
    [id |-> h[a].id, type |-> h[a].type, text |-> h[a].text, weight |-> h[a].weight]

(* The value of a list of Questions at address l *)
ListValue(h, l) == [i \in 1..Len(h[l].items) |-> QuestionValue(h, h[l].items[i])]

(* The value of a Domain object *)
DomainValue(h, a) ==
    [id |-> h[a].id, label |-> h[a].label, description |-> h[a].description,
     questions |-> ListValue(h, h[a].questions)]

(* The value of a dict of Domains (== on dicts of dataclasses compares values) *)
DomainsValue(h, d) == [i \in 1..Len(d) |-> [k |-> d[i].k, v |-> DomainValue(h, d[i].v)]]

SectorValue(h, a) ==
    [id |-> h[a].id, label |-> h[a].label,
     extra_questions |->
        [i \in 1..Len(h[a].extra_questions) |->
            [k |-> h[a].extra_questions[i].k,
             v |-> ListValue(h, h[a].extra_questions[i].v)]]]

SectorsValue(h, d) == [i \in 1..Len(d) |-> [k |-> d[i].k, v |-> SectorValue(h, d[i].v)]]

(* Addresses reachable from a Domain object: itself, its list, its questions *)
DomainObjects(h, a) ==
    {a, h[a].questions} \cup {h[h[a].questions].items[i] : i \in 1..Len(h[h[a].questions].items)}

DomainsObjects(h, d) == UNION {DomainObjects(h, d[i].v) : i \in 1..Len(d)}

SectorObjects(h, a) ==
    {a} \cup UNION {
        {h[a].extra_questions[i].v} \cup
        {h[h[a].extra_questions[i].v].items[j] :
            j \in 1..Len(h[h[a].extra_questions[i].v].items)}
        : i \in 1..Len(h[a].extra_questions)}

SectorsObjects(h, d) == UNION {SectorObjects(h, d[i].v) : i \in 1..Len(d)}

-----------------------------------------------------------------------------
(* load_questions: the JSON document -> (domains, sectors) *)

(* [Question(...) for q in q_list]: one Question object per entry, then the list *)
LoadQuestionList(h, qs) ==
    LET h1 == h \o [i \in 1..Len(qs) |->
                      Question(qs[i].id, qs[i].type, qs[i].text,
                               IF "weight" \in DOMAIN qs[i] THEN qs[i].weight
                               ELSE PyFloat(10))]
        h2 == Append(h1, List([i \in 1..Len(qs) |-> Len(h) + i]))
    IN [heap |-> h2, ref |-> Len(h2)]

RECURSIVE LoadDomains(_, _, _, _)
LoadDomains(h, ds, i, acc) ==
    IF i > Len(ds) THEN [heap |-> h, dict |-> acc]
    ELSE LET l == LoadQuestionList(h, ds[i].questions)
             h2 == Append(l.heap,
                      Domain(ds[i].id, ds[i].label,
                             IF "description" \in DOMAIN ds[i] THEN ds[i].description ELSE "",
                             l.ref))
         IN LoadDomains(h2, ds, i + 1, DictPut(acc, ds[i].id, Len(h2)))

RECURSIVE LoadExtra(_, _, _, _)
LoadExtra(h, ex, i, acc) ==
    IF i > Len(ex) THEN [heap |-> h, dict |-> acc]
    ELSE LET l == LoadQuestionList(h, ex[i].v)
         IN LoadExtra(l.heap, ex, i + 1, DictPut(acc, ex[i].k, l.ref))

RECURSIVE LoadSectors(_, _, _, _)
LoadSectors(h, ss, i, acc) ==
    IF i > Len(ss) THEN [heap |-> h, dict |-> acc]
    ELSE LET e == LoadExtra(h, IF "extra_questions" \in DOMAIN ss[i]
                               THEN ss[i].extra_questions ELSE <<>>, 1, <<>>)
             h2 == Append(e.heap, SectorProfile(ss[i].id, ss[i].label, e.dict))
         IN LoadSectors(h2, ss, i + 1, DictPut(acc, ss[i].id, Len(h2)))

load_questions(data) ==
    LET d == LoadDomains(<<>>, data.domains, 1, <<>>)
        s == LoadSectors(d.heap, IF "sectors" \in DOMAIN data THEN data.sectors ELSE <<>>,
                         1, <<>>)
    IN [heap |-> s.heap, domains |-> d.dict, sectors |-> s.dict]

(* The catalogue documents the model is run on (config/questions_<lang>.json) *)
DocA ==
    [domains |-> <<
        [id |-> "finance", label |-> "Finance", description |-> "f",
         questions |-> << [id |-> "f1", type |-> "stars", text |-> "t"],
                          [id |-> "f2", type |-> "boolean", text |-> "t", weight |-> PyFloat(20)] >>],
        [id |-> "si", label |-> "SI",
         questions |-> << [id |-> "si_1", type |-> "stars", text |-> "t"] >>] >>,
     sectors |-> <<
        [id |-> "tech", label |-> "Tech",
         extra_questions |-> <<
            [k |-> "ghost", v |-> << [id |-> "g_1", type |-> "boolean", text |-> "t"] >>],
            [k |-> "si", v |-> << [id |-> "si_701", type |-> "stars", text |-> "t"] >>] >>],
        [id |-> "btp", label |-> "BTP",
         extra_questions |-> <<
            [k |-> "finance",
             v |-> << [id |-> "f_btp_1", type |-> "boolean", text |-> "t"],
                      [id |-> "f_btp_2", type |-> "stars", text |-> "t", weight |-> PyInt(2)] >>] >>] >>]

DocB ==
    [domains |-> <<
        [id |-> "rh", label |-> "RH", description |-> "r", questions |-> << >>],
        [id |-> "finance", label |-> "Finance", description |-> "f",
         questions |-> << [id |-> "f1", type |-> "stars", text |-> "t"] >>] >>,
     sectors |-> <<
        [id |-> "tech", label |-> "Tech",
         extra_questions |-> <<
            [k |-> "finance", v |-> << [id |-> "f1", type |-> "boolean", text |-> "t"] >>] >>],
        [id |-> "agri", label |-> "Agri"] >>]

CatalogueDocs == {DocA, DocB}

(* The sector_id arguments build_domains_for_sector is called with *)
SectorArgs == {None} \cup {PyStr(s) : s \in {"tech", "btp", "agri", "zzz"}}

-----------------------------------------------------------------------------
(* build_domains_for_sector *)

(* Faulty variant: list(l), a new list holding the same Question objects *)
ShallowCopyList(h, l) ==
    LET h2 == Append(h, List(h[l].items))
    IN [heap |-> h2, ref |-> Len(h2)]

(* copy.deepcopy of a list of Questions: new Question objects, then a new list.
   (No two entries of a catalogue list are the same object, so deepcopy's memo
   never applies.) *)
DeepCopyList(h, l) ==
    LET n == Len(h[l].items)
        h1 == h \o [i \in 1..n |-> h[h[l].items[i]]]
        h2 == Append(h1, List([i \in 1..n |-> Len(h) + i]))
    IN [heap |-> h2, ref |-> Len(h2)]

(* Faulty variant: copy.copy(v), a new Domain sharing the questions list *)
ShallowCopyDomain(h, a) ==
    LET h2 == Append(h, h[a])
    IN [heap |-> h2, ref |-> Len(h2)]

(* copy.deepcopy(v) of a Domain: a new Domain whose questions is a deep copy *)
DeepCopyDomain(h, a) ==
    LET l == DeepCopyList(h, h[a].questions)
        h2 == Append(l.heap, [h[a] EXCEPT !.questions = l.ref])
    IN [heap |-> h2, ref |-> Len(h2)]

(* Faulty variant: domains = dict(DOMAINS_COMMON), the catalogue's own Domains *)
ShareCatalogue(h, dc, i, acc) == [heap |-> h, dict |-> dc]

(* domains = {k: copy.deepcopy(v) for k, v in DOMAINS_COMMON.items()} *)
RECURSIVE CopyCatalogue(_, _, _, _)
CopyCatalogue(h, dc, i, acc) ==
    IF i > Len(dc) THEN [heap |-> h, dict |-> acc]
    ELSE LET c == DeepCopyDomain(h, dc[i].v)
         IN CopyCatalogue(c.heap, dc, i + 1, DictPut(acc, dc[i].k, c.ref))

(* Faulty variant: the copied extras are put in front of the domain's questions *)
PrependQuestions(h, dom, extra_qs) ==
    LET c == DeepCopyList(h, extra_qs)
    IN [c.heap EXCEPT ![h[dom].questions].items = c.heap[c.ref].items \o @]

(* Faulty variant: questions.extend(extra_qs), the sector's own Question objects *)
ExtendAliased(h, dom, extra_qs) ==
    [h EXCEPT ![h[dom].questions].items = @ \o h[extra_qs].items]

(* Faulty variant: questions.extend(copy.copy(extra_qs)), a new list that
   holds the sector's own Question objects *)
ExtendShallow(h, dom, extra_qs) ==
    LET c == ShallowCopyList(h, extra_qs)
    IN [c.heap EXCEPT ![h[dom].questions].items = @ \o c.heap[c.ref].items]

(* Faulty variant: a question whose id the domain has already is not added *)
ExtendNew(h, dom, extra_qs) ==
    LET c == DeepCopyList(h, extra_qs)
        have == {h[h[h[dom].questions].items[n]].id : n \in 1..Len(h[h[dom].questions].items)}
        IsNew(a) == c.heap[a].id \notin have
    IN [c.heap EXCEPT ![h[dom].questions].items = @ \o SelectSeq(c.heap[c.ref].items, IsNew)]

(* domains[domain_id].questions.extend(copy.deepcopy(extra_qs)) *)
ExtendQuestions(h, dom, extra_qs) ==
    LET c == DeepCopyList(h, extra_qs)
    IN [c.heap EXCEPT ![h[dom].questions].items = @ \o c.heap[c.ref].items]

(* Faulty variant: break instead of continue at a domain the catalogue lacks *)
RECURSIVE ApplyExtrasBreak(_, _, _, _)
ApplyExtrasBreak(h, domains, extra, i) ==
    IF i > Len(extra) THEN h
    ELSE IF ~DictHas(domains, extra[i].k)
         THEN h
         ELSE ApplyExtrasBreak(ExtendQuestions(h, DictGet(domains, extra[i].k), extra[i].v),
                               domains, extra, i + 1)

(* for domain_id, extra_qs in sector.extra_questions.items(): ... *)
RECURSIVE ApplyExtras(_, _, _, _)
ApplyExtras(h, domains, extra, i) ==
    IF i > Len(extra) THEN h
    ELSE IF ~DictHas(domains, extra[i].k)
         THEN ApplyExtras(h, domains, extra, i + 1)
         ELSE ApplyExtras(ExtendQuestions(h, DictGet(domains, extra[i].k), extra[i].v),
                          domains, extra, i + 1)

(* Faulty variant: an unknown sector id is treated like None *)
build_without_sector_check(h, dc, ss, sector_id) ==
    LET c == CopyCatalogue(h, dc, 1, <<>>)
    IN IF sector_id = None \/ ~DictHas(ss, sector_id.v)
       THEN [heap |-> c.heap, outcome |-> "return", domains |-> c.dict]
       ELSE [heap |-> ApplyExtras(c.heap, c.dict,
                                  c.heap[DictGet(ss, sector_id.v)].extra_questions, 1),
             outcome |-> "return", domains |-> c.dict]

(* The whole function: the heap it leaves, how it ended, and the dict returned *)
build_domains_for_sector(h, dc, ss, sector_id) ==
    LET c == CopyCatalogue(h, dc, 1, <<>>)
    IN IF sector_id = None
       THEN [heap |-> c.heap, outcome |-> "return", domains |-> c.dict]
       ELSE IF ~DictHas(ss, sector_id.v)
       THEN \* the copy is a local: it is released when the exception leaves the frame
            [heap |-> h, outcome |-> "ValueError", domains |-> <<>>]
       ELSE [heap |-> ApplyExtras(c.heap, c.dict,
                                  c.heap[DictGet(ss, sector_id.v)].extra_questions, 1),
             outcome |-> "return", domains |-> c.dict]

(* One call of build_domains_for_sector by the presentation layer *)
Build(sector_id) ==
    /\ Len(calls) < MaxBuilds
    /\ LET r == build_domains_for_sector(heap, DOMAINS_COMMON, SECTORS, sector_id)
       IN /\ heap' = r.heap
          /\ calls' = Append(calls,
                [sector_id |-> sector_id, outcome |-> r.outcome, domains |-> r.domains,
                 value |-> DomainsValue(r.heap, r.domains), after |-> nmut])
    /\ UNCHANGED <<DOMAINS_COMMON, SECTORS, loaded, nmut, scoreVars, domainVars, analysisVars,
                 classifyVars, templateVars, loadVars, replayVars>>

(* The caller mutates a mapping it was returned: the dataclasses are not frozen
   and Domain.questions is a plain list *)
RemoveAt(s, i) == [j \in 1..(Len(s) - 1) |-> IF j < i THEN s[j] ELSE s[j + 1]]

(* result[k].questions.append(Question("x_new", "boolean", "t", 3.0)) *)
CallerAppend(c, k) ==
    /\ nmut < MaxMutations
    /\ c \in 1..Len(calls) /\ calls[c].outcome = "return"
    /\ DictHas(calls[c].domains, k)
    /\ LET l == heap[DictGet(calls[c].domains, k)].questions
           h1 == Append(heap, Question("x_new", "boolean", "t", PyFloat(30)))
       IN heap' = [h1 EXCEPT ![l].items = Append(@, Len(h1))]
    /\ nmut' = nmut + 1
    /\ UNCHANGED <<DOMAINS_COMMON, SECTORS, loaded, calls, scoreVars, domainVars, analysisVars,
                 classifyVars, templateVars, loadVars, replayVars>>

(* del result[k].questions[i] *)
CallerRemove(c, k, i) ==
    /\ nmut < MaxMutations
    /\ c \in 1..Len(calls) /\ calls[c].outcome = "return"
    /\ DictHas(calls[c].domains, k)
    /\ LET l == heap[DictGet(calls[c].domains, k)].questions
       IN /\ i \in 1..Len(heap[l].items)
          /\ heap' = [heap EXCEPT ![l].items = RemoveAt(@, i)]
    /\ nmut' = nmut + 1
    /\ UNCHANGED <<DOMAINS_COMMON, SECTORS, loaded, calls, scoreVars, domainVars, analysisVars,
                 classifyVars, templateVars, loadVars, replayVars>>

(* q = result[k].questions[i]; q.id = "edited"; q.weight = 5.0 *)
CallerEdit(c, k, i) ==
    /\ nmut < MaxMutations
    /\ c \in 1..Len(calls) /\ calls[c].outcome = "return"
    /\ DictHas(calls[c].domains, k)
    /\ LET l == heap[DictGet(calls[c].domains, k)].questions
       IN /\ i \in 1..Len(heap[l].items)
          /\ heap' = [heap EXCEPT ![heap[l].items[i]].id = "edited",
                                  ![heap[l].items[i]].weight = PyFloat(50)]
    /\ nmut' = nmut + 1
    /\ UNCHANGED <<DOMAINS_COMMON, SECTORS, loaded, calls, scoreVars, domainVars, analysisVars,
                 classifyVars, templateVars, loadVars, replayVars>>

-----------------------------------------------------------------------------
(* Python strings are sequences of one-character strings *)

Whitespace == {" ", "\t", "\n"}
UpperCase == <<"A","B","C","D","E","F","G","H","I","J","K","L","M",
               "N","O","P","Q","R","S","T","U","V","W","X","Y","Z">>
LowerCase == <<"a","b","c","d","e","f","g","h","i","j","k","l","m",
               "n","o","p","q","r","s","t","u","v","w","x","y","z">>
Digits == <<"0","1","2","3","4","5","6","7","8","9">>

(* str.strip(): leading and trailing whitespace removed *)
RECURSIVE LStrip(_)
LStrip(s) == IF s # <<>> /\ Head(s) \in Whitespace THEN LStrip(Tail(s)) ELSE s

RECURSIVE RStrip(_)
RStrip(s) ==
    IF s # <<>> /\ s[Len(s)] \in Whitespace THEN RStrip(SubSeq(s, 1, Len(s) - 1)) ELSE s

strip(s) == RStrip(LStrip(s))

(* str.lower() *)
LowerChar(c) ==
    IF \E i \in 1..Len(UpperCase) : UpperCase[i] = c
    THEN LowerCase[CHOOSE i \in 1..Len(UpperCase) : UpperCase[i] = c]
    ELSE c

lower(s) == [i \in 1..Len(s) |-> LowerChar(s[i])]

IsDigit(c) == \E i \in 1..Len(Digits) : Digits[i] = c
DigitValue(c) == (CHOOSE i \in 1..Len(Digits) : Digits[i] = c) - 1

RECURSIVE DigitsValue(_, _)
DigitsValue(s, acc) ==
    IF s = <<>> THEN acc ELSE DigitsValue(Tail(s), 10 * acc + DigitValue(Head(s)))

-----------------------------------------------------------------------------
(* int(answer) and bool(answer) *)

Ok(n) == [ok |-> TRUE, v |-> n]
Raise(e) == [ok |-> FALSE, err |-> e]

(* int(str): surrounding whitespace ignored, an optional sign, then digits *)
IntOfStr(s) ==
    LET t == strip(s)
        signed == t # <<>> /\ Head(t) \in {"+", "-"}
        d == IF signed THEN Tail(t) ELSE t
    IN IF d # <<>> /\ \A i \in 1..Len(d) : IsDigit(d[i])
       THEN Ok(IF signed /\ Head(t) = "-" THEN 0 - DigitsValue(d, 0) ELSE DigitsValue(d, 0))
       ELSE Raise("ValueError")

(* int(float): truncation toward zero; nan and the infinities raise.
   A finite float is held in tenths. *)
IntOfFloat(a) ==
    IF a.special = "nan" THEN Raise("ValueError")
    ELSE IF a.special \in {"inf", "-inf"} THEN Raise("OverflowError")
    ELSE Ok(IF a.v >= 0 THEN a.v \div 10 ELSE 0 - ((0 - a.v) \div 10))

int(a) ==
    CASE a.t = "int" -> Ok(a.v)
      [] a.t = "bool" -> Ok(IF a.v THEN 1 ELSE 0)
      [] a.t = "float" -> IntOfFloat(a)
      [] a.t = "str" -> IntOfStr(a.v)
      [] OTHER -> Raise("TypeError")    \* None, list, dict

(* bool(answer): standard truthiness *)
bool(a) ==
    CASE a.t = "None" -> FALSE
      [] a.t = "bool" -> a.v
      [] a.t = "int" -> a.v # 0
      [] a.t = "float" -> a.special # "finite" \/ a.v # 0
      [] a.t = "str" -> a.v # <<>>
      [] OTHER -> a.v # <<>>            \* list, dict: non-empty

-----------------------------------------------------------------------------
(* Python float arithmetic: IEEE-754 binary64, round to nearest, ties to even.
   A positive float is [m, e]: m its 53 significand bits, most significant
   first and m[1] = 1, and e the exponent of the last bit (the value is
   m * 2^e).  Only what (v / 5.0) * 100.0 needs: an int divided by a small
   int, and a float multiplied by a small int. *)

Prec == 53

Zeros(n) == [i \in 1..n |-> 0]

StripLeadingZeros(b) ==
    LET ones == {i \in 1..Len(b) : b[i] = 1}
    IN IF ones = {} THEN <<>>
       ELSE SubSeq(b, CHOOSE i \in ones : \A j \in ones : i <= j, Len(b))

(* The int a bit string denotes, by halves *)
RECURSIVE BitsToInt(_)
BitsToInt(b) ==
    IF Len(b) = 0 THEN 0
    ELSE IF Len(b) = 1 THEN b[1]
    ELSE LET h == Len(b) \div 2
         IN BitsToInt(SubSeq(b, 1, h)) * 2^(Len(b) - h) + BitsToInt(SubSeq(b, h + 1, Len(b)))

RECURSIVE IntToBits(_)
IntToBits(n) == IF n = 0 THEN <<>> ELSE Append(IntToBits(n \div 2), n % 2)

(* Bit strings are worked on in limbs of 15 bits, so that every product
   stays within TLC's 32-bit integers *)
Limb == [bits |-> 15, base |-> 32768]

ToLimbs(b) ==
    LET n == (Len(b) + Limb.bits - 1) \div Limb.bits
        p == Zeros(n * Limb.bits - Len(b)) \o b
    IN [j \in 1..n |-> BitsToInt(SubSeq(p, Limb.bits * (j - 1) + 1, Limb.bits * j))]

FromLimbs(ls) ==
    [i \in 1..(Limb.bits * Len(ls)) |->
        (ls[((i - 1) \div Limb.bits) + 1] \div 2^(Limb.bits - 1 - ((i - 1) % Limb.bits))) % 2]

(* ls * k + carry on limbs, from the last limb (0 < k < Limb.base) *)
RECURSIVE MulAddLimbs(_, _, _, _, _)
MulAddLimbs(ls, k, i, carry, acc) ==
    IF i = 0 THEN (IF carry > 0 THEN <<carry>> \o acc ELSE acc)
    ELSE LET t == ls[i] * k + carry
         IN MulAddLimbs(ls, k, i - 1, t \div Limb.base, <<t % Limb.base>> \o acc)

(* m * k + c on a bit string m, for small ints k and c *)
MulAddBits(m, k, c) ==
    LET ls == ToLimbs(m)
    IN StripLeadingZeros(FromLimbs(MulAddLimbs(ls, k, Len(ls), c, <<>>)))

(* The first n fraction limbs of r / d (r < d < Limb.base), and the remainder
   they leave *)
RECURSIVE FracLimbs(_, _, _)
FracLimbs(r, d, n) ==
    IF n = 0 THEN <<>>
    ELSE <<(r * Limb.base) \div d>> \o FracLimbs((r * Limb.base) % d, d, n - 1)

RECURSIVE FracRem(_, _, _)
FracRem(r, d, n) == IF n = 0 THEN r ELSE FracRem((r * Limb.base) % d, d, n - 1)

(* Round a bit string b (b[1] = 1, last bit of weight 2^e, sticky: non-zero
   bits lie beyond it) to Prec bits, to nearest, ties to even *)
RoundBits(b, e, sticky) ==
    IF Len(b) <= Prec
    THEN [m |-> b \o Zeros(Prec - Len(b)), e |-> e - (Prec - Len(b))]
    ELSE LET keep == SubSeq(b, 1, Prec)
             guard == b[Prec + 1]
             rest == sticky \/ \E i \in (Prec + 2)..Len(b) : b[i] = 1
             e2 == e + (Len(b) - Prec)
             up == guard = 1 /\ (rest \/ keep[Prec] = 1)
             inc == MulAddBits(keep, 1, 1)
         IN IF ~up THEN [m |-> keep, e |-> e2]
            ELSE IF Len(inc) > Prec THEN [m |-> SubSeq(inc, 1, Prec), e |-> e2 + 1]
            ELSE [m |-> inc, e |-> e2]

(* float(v) / float(d) for ints 0 < v, 0 < d < Limb.base *)
FloatDiv(v, d) ==
    LET n == 5
        b == IntToBits(v \div d) \o FromLimbs(FracLimbs(v % d, d, n))
    IN RoundBits(StripLeadingZeros(b), 0 - n * Limb.bits, FracRem(v % d, d, n) # 0)

(* x * float(k) for a float x > 0 and an int 0 < k < Limb.base *)
FloatMul(x, k) == RoundBits(MulAddBits(x.m, k, 0), x.e, FALSE)

(* The number a float holds: its integer part, and whether that is all of it *)
FloatValue(x) ==
    IF x.e >= 0 THEN [value |-> BitsToInt(x.m \o Zeros(x.e)), exact |-> TRUE]
    ELSE IF 0 - x.e >= Prec THEN [value |-> 0, exact |-> FALSE]
    ELSE [value |-> BitsToInt(SubSeq(x.m, 1, Prec + x.e)),
          exact |-> \A i \in (Prec + x.e + 1)..Prec : x.m[i] = 0]

(* (v / 5.0) * 100.0 for the clamped int v *)
StarsScore(v) ==
    IF v = 0 THEN [value |-> 0, exact |-> TRUE]
    ELSE FloatValue(FloatMul(FloatDiv(v, 5), 100))

-----------------------------------------------------------------------------
(* score_question *)

Return(x) == [status |-> "return", value |-> x.value, exact |-> x.exact]
Fail(e) == [status |-> e]

Max(a, b) == IF a > b THEN a ELSE b
Min(a, b) == IF a < b THEN a ELSE b

AffirmativeTokens == { <<"o","u","i">>, <<"y","e","s">>, <<"t","r","u","e">>, <<"1">> }

(* Faulty variant: v = max(0, v), the upper clamp forgotten *)
ScoreStarsUnclamped(a) ==
    IF a = None THEN Return([value |-> 0, exact |-> TRUE])
    ELSE LET c == int(a)
         IN IF c.ok THEN Return(StarsScore(Max(0, c.v)))
            ELSE IF c.err \in {"TypeError", "ValueError"}
            THEN Return([value |-> 0, exact |-> TRUE])
            ELSE Fail(c.err)

(* if question.type == "stars": ... *)
ScoreStars(a) ==
    IF a = None THEN Return([value |-> 0, exact |-> TRUE])
    ELSE LET c == int(a)
         IN IF c.ok THEN Return(StarsScore(Max(0, Min(5, c.v))))
            ELSE IF c.err \in {"TypeError", "ValueError"}
            THEN Return([value |-> 0, exact |-> TRUE])
            ELSE Fail(c.err)

(* Faulty variant: val = bool(answer) for strings too, so that "non" is truthy *)
ScoreBooleanTruthy(a) ==
    Return([value |-> IF bool(a) THEN 100 ELSE 0, exact |-> TRUE])

(* if question.type == "boolean": ... *)
ScoreBoolean(a) ==
    LET val == IF a.t = "str" THEN lower(strip(a.v)) \in AffirmativeTokens ELSE bool(a)
    IN Return([value |-> IF val THEN 100 ELSE 0, exact |-> TRUE])

(* Faulty variant: any other type tag is scored like a boolean instead of raising *)
score_question_lenient(q, a) ==
    IF q.type = "stars" THEN ScoreStars(a) ELSE ScoreBoolean(a)

score_question(q, a) ==
    IF q.type = "stars" THEN ScoreStars(a)
    ELSE IF q.type = "boolean" THEN ScoreBoolean(a)
    ELSE Fail("ValueError")

(* The inputs score_question is applied to *)
MaxAnswer == 8

QuestionTypes == {"stars", "boolean", "text", "Stars"}
Weights == {PyFloat(10), PyInt(2)}
Questions == {[id |-> "q1", type |-> t, text |-> "t", weight |-> w] :
                 t \in QuestionTypes, w \in Weights}

StrAnswers ==
    {<<"4">>,
     <<" ","3"," ">>,
     <<"-","1">>,
     <<"+","2">>,
     <<"9">>,
     <<"0","0","7">>,
     <<"4",".","5">>,
     <<"a","b","c">>,
     <<>>,
     <<" ">>,
     <<"o","u","i">>,
     <<" ","O","u","i"," ">>,
     <<"Y","E","S">>,
     <<"t","r","u","e">>,
     <<"1">>,
     <<"1"," ">>,
     <<"\t","T","r","u","e","\n">>,
     <<"n","o","n">>,
     <<"f","a","l","s","e">>,
     <<"0">>,
     <<"y","e","s","s">>,
     <<"o"," ","u","i">>,
     <<"N","o","n">>}

FloatAnswers ==
    {PyFloat(x) : x \in {0, 37, 50, 99, -5, -25}} \cup
    {PyFloatSpecial(x) : x \in {"nan", "inf", "-inf"}}

Answers ==
    {None} \cup {PyInt(n) : n \in (0 - MaxAnswer)..MaxAnswer}
           \cup {PyBool(b) : b \in BOOLEAN}
           \cup {PyStr(x) : x \in StrAnswers}
           \cup FloatAnswers
           \cup {PyList(<<>>), PyList(<<1>>)}

(* The call of score_question on the inputs drawn *)
ScoreQuestion ==
    /\ result = None
    /\ result' = score_question(question, answer)
    /\ UNCHANGED <<buildVars, question, answer, domainVars, analysisVars,
                 classifyVars, templateVars, loadVars, replayVars>>

(* DOMAINS_COMMON, SECTORS = load_questions(language="fr") at import *)
CatalogueLoaded(data) ==
    LET r == load_questions(data)
    IN /\ heap = r.heap
       /\ DOMAINS_COMMON = r.domains
       /\ SECTORS = r.sectors
       /\ loaded = [domains |-> DomainsValue(r.heap, r.domains),
                    sectors |-> SectorsValue(r.heap, r.sectors)]

InitCatalogue == \E data \in CatalogueDocs : CatalogueLoaded(data)

Init ==
    /\ InitCatalogue
    /\ calls = <<>>
    /\ nmut = 0
    /\ question = None /\ answer = None /\ result = None
    /\ domain_arg = None /\ answers_arg = None /\ domain_score = None
    /\ domains_arg = None /\ all_answers_arg = None
    /\ domain_scores = None /\ weak_points = None /\ strong_points = None
    /\ score_arg = None /\ level = None
    /\ template = None
    /\ files = None /\ path_arg = None /\ loaded_answers = None
    /\ new_answers = None /\ new_scores = None

Next ==
    \/ \E s \in SectorArgs : Build(s)
    \/ \E c \in 1..Len(calls) : \E k \in DictKeys(calls[c].domains) : CallerAppend(c, k)
    \/ \E c \in 1..Len(calls) : \E k \in DictKeys(calls[c].domains) :
          \E i \in 1..Len(heap) : CallerRemove(c, k, i)
    \/ \E c \in 1..Len(calls) : \E k \in DictKeys(calls[c].domains) :
          \E i \in 1..Len(heap) : CallerEdit(c, k, i)

Spec == Init /\ [][Next]_vars

(* The scorer alone, on every question and answer of the input sets *)
InitScore ==
    /\ InitCatalogue
    /\ calls = <<>>
    /\ nmut = 0
    /\ question \in Questions /\ answer \in Answers /\ result = None
    /\ domain_arg = None /\ answers_arg = None /\ domain_score = None
    /\ domains_arg = None /\ all_answers_arg = None
    /\ domain_scores = None /\ weak_points = None /\ strong_points = None
    /\ score_arg = None /\ level = None
    /\ template = None
    /\ files = None /\ path_arg = None /\ loaded_answers = None
    /\ new_answers = None /\ new_scores = None

NextScore == ScoreQuestion

SpecScore == InitScore /\ [][NextScore]_vars

-----------------------------------------------------------------------------
(* Properties of build_domains_for_sector, checked under Spec *)

Returned(c) == calls[c].outcome = "return"
WithSector(c) == calls[c].sector_id # None
KnownSector(c) == WithSector(c) /\ DictHas(loaded.sectors, calls[c].sector_id.v)

(* The caller has since changed the mapping call c returned *)
Mutated(c) == Returned(c) /\ DomainsValue(heap, calls[c].domains) # calls[c].value

(* The extra questions the loaded sector of call c has for domain id k *)
ExtraFor(c, k) ==
    LET ex == DictGet(loaded.sectors, calls[c].sector_id.v).extra_questions
    IN IF DictHas(ex, k) THEN DictGet(ex, k) ELSE <<>>

SeqElems(q) == {q[i] : i \in 1..Len(q)}

(* C1: whatever builds were called (None, known, unknown sector ids) and
   however the caller mutated the mappings returned, the shared catalogue
   DOMAINS_COMMON holds the same domain ids and, per domain, the same ordered
   question list as right after loading. *)
C1_CommonCatalogueUnchanged ==
    DomainsValue(heap, DOMAINS_COMMON) = loaded.domains

(* C1 witness: a first returned mapping was mutated by the caller, and a
   build for a sector returned after that mutation. *)
C1_Witness ==
    /\ Len(calls) >= 2
    /\ Mutated(1)
    /\ Returned(2) /\ KnownSector(2) /\ calls[2].after >= 1

(* C2: build_domains_for_sector(None) returns a mapping value-equal to the
   common catalogue as loaded (no sector question added), also when earlier
   results were mutated, and the mapping shares no Domain, list or Question
   object with the common catalogue. *)
C2_NoneIsFreshCopy ==
    \A c \in 1..Len(calls) :
        calls[c].sector_id = None =>
            /\ Returned(c)
            /\ calls[c].value = loaded.domains
            /\ DomainsObjects(heap, calls[c].domains)
                 \cap DomainsObjects(heap, DOMAINS_COMMON) = {}

(* C2 witness: build(None) returned, the caller mutated that result, and a
   second build(None) was made after the mutation. *)
C2_Witness ==
    /\ Len(calls) >= 2
    /\ calls[1].sector_id = None /\ Mutated(1)
    /\ calls[2].sector_id = None /\ calls[2].after >= 1 /\ Returned(2)

(* C3: for a known sector s, every domain d of the common catalogue comes back
   with d's common questions followed by exactly s.extra_questions[d] in source
   order (nothing when s has no extension for d), so its count is the base
   count plus the number of extras. *)
C3_ExtrasAppendedInOrder ==
    \A c \in 1..Len(calls) :
        KnownSector(c) =>
            /\ Returned(c)
            /\ Len(calls[c].value) = Len(loaded.domains)
            /\ \A i \in 1..Len(loaded.domains) :
                 LET k == loaded.domains[i].k
                     base == loaded.domains[i].v.questions
                     got == calls[c].value[i]
                 IN /\ got.k = k
                    /\ got.v.questions = base \o ExtraFor(c, k)
                    /\ Len(got.v.questions) = Len(base) + Len(ExtraFor(c, k))

(* C3 witness: sector "tech" adds the single question si_701 to domain "si":
   the count is base + 1 and si_701 is last; and a sector adding two
   questions to a domain has been built as well. *)
C3_Witness ==
    \E c \in 1..Len(calls) :
        /\ KnownSector(c) /\ Returned(c) /\ calls[c].sector_id = PyStr("tech")
        /\ DictHas(calls[c].value, "si")
        /\ LET qs == DictGet(calls[c].value, "si").questions
           IN /\ Len(qs) = Len(DictGet(loaded.domains, "si").questions) + 1
              /\ qs[Len(qs)].id = "si_701"

(* C4: a sector id that is not None and not a key of SECTORS makes the call
   fail with ValueError, no mapping is returned, and DOMAINS_COMMON and
   SECTORS are as loaded. *)
C4_UnknownSectorFails ==
    \A c \in 1..Len(calls) :
        (WithSector(c) /\ ~DictHas(SECTORS, calls[c].sector_id.v)) =>
            /\ calls[c].outcome = "ValueError"
            /\ calls[c].domains = <<>>
            /\ DomainsValue(heap, DOMAINS_COMMON) = loaded.domains
            /\ SectorsValue(heap, SECTORS) = loaded.sectors

(* C4 witness: a call with an unknown sector id was made after another call
   had returned a mapping. *)
C4_Witness ==
    /\ Len(calls) >= 2
    /\ Returned(1)
    /\ WithSector(2) /\ ~DictHas(SECTORS, calls[2].sector_id.v)

(* C5: when a known sector's extra_questions names a domain id that the common
   catalogue lacks, the call still returns, the domain ids of the result are
   those of the common catalogue, the dropped questions are in no domain of
   the result, and the extensions for existing domains are applied. *)
C5_UnknownDomainExtensionDropped ==
    \A c \in 1..Len(calls) :
        KnownSector(c) =>
            LET ex == DictGet(loaded.sectors, calls[c].sector_id.v).extra_questions
            IN /\ Returned(c)
               /\ DictKeys(calls[c].value) = DictKeys(loaded.domains)
               /\ \A e \in 1..Len(ex) :
                    IF DictHas(loaded.domains, ex[e].k)
                    THEN LET qs == DictGet(calls[c].value, ex[e].k).questions
                         IN /\ Len(qs) >= Len(ex[e].v)
                            /\ SubSeq(qs, Len(qs) - Len(ex[e].v) + 1, Len(qs)) = ex[e].v
                    ELSE \A i \in 1..Len(calls[c].value) :
                            SeqElems(calls[c].value[i].v.questions)
                               \cap SeqElems(ex[e].v) = {}

(* C5 witness: a sector with one extension for an existing domain and one for
   a domain the catalogue lacks has been built. *)
C5_Witness ==
    \E c \in 1..Len(calls) :
        /\ KnownSector(c) /\ Returned(c)
        /\ LET ex == DictGet(loaded.sectors, calls[c].sector_id.v).extra_questions
           IN /\ \E e \in 1..Len(ex) : ~DictHas(loaded.domains, ex[e].k) /\ ex[e].v # <<>>
              /\ \E e \in 1..Len(ex) : DictHas(loaded.domains, ex[e].k) /\ ex[e].v # <<>>

(* C6: two calls with the same argument (a known sector id or None) return
   value-equal mappings, whatever calls and caller mutations lie between. *)
C6_Deterministic ==
    \A c1, c2 \in 1..Len(calls) :
        (calls[c1].sector_id = calls[c2].sector_id /\ Returned(c1)) =>
            /\ Returned(c2)
            /\ calls[c1].value = calls[c2].value

(* C6 witness: the same known sector was built twice, and the caller mutated
   the first result before the second call. *)
C6_Witness ==
    /\ Len(calls) >= 2
    /\ KnownSector(1) /\ Mutated(1)
    /\ calls[2].sector_id = calls[1].sector_id /\ calls[2].after >= 1 /\ Returned(2)

-----------------------------------------------------------------------------
(* Properties of score_question, checked under SpecScore *)

Scored == result # None
IsRating == question.type = "stars"
IsBoolean == question.type = "boolean"

(* C7: for a RATING question and an integer answer v the score is exactly
   v * 20 for v in [0, 5], 0 for v < 0 and 100 for v > 5; it does not decrease
   when the answer grows; and the question's weight does not change it. *)
C7_RatingExactClampedMonotonic ==
    (Scored /\ IsRating /\ answer.t = "int") =>
        /\ result.status = "return" /\ result.exact
        /\ (answer.v \in 0..5 => result.value = answer.v * 20)
        /\ (answer.v < 0 => result.value = 0)
        /\ (answer.v > 5 => result.value = 100)
        /\ \A v2 \in answer.v..MaxAnswer :
              LET r2 == score_question(question, PyInt(v2))
              IN r2.status = "return" /\ r2.exact /\ result.value <= r2.value
        /\ \A w \in Weights :
              score_question([question EXCEPT !.weight = w], answer) = result

(* C7 witness: the answer 3 to a RATING question of weight 2 scored exactly 60. *)
C7_Witness ==
    /\ IsRating /\ question.weight = PyInt(2) /\ answer = PyInt(3)
    /\ result = [status |-> "return", value |-> 60, exact |-> TRUE]

(* C8: for a RATING or BOOLEAN question score_question returns a score for
   every answer shape, expected or not, and for a RATING question an absent
   answer or one that int() cannot coerce scores exactly 0. *)
C8_TotalOverAnswerShapes ==
    (Scored /\ (IsRating \/ IsBoolean)) =>
        /\ result.status = "return"
        /\ (IsRating /\ (answer = None \/ ~int(answer).ok)) =>
              (result.exact /\ result.value = 0)

(* The answers of the input set that are affirmative for a BOOLEAN question *)
C9_AffirmativeStrings ==
    {<<"o","u","i">>, <<" ","O","u","i"," ">>, <<"Y","E","S">>, <<"t","r","u","e">>,
     <<"1">>, <<"1"," ">>, <<"\t","T","r","u","e","\n">>}

C9_TruthyNonStrings ==
    {a \in Answers :
        \/ a = PyBool(TRUE)
        \/ a.t = "int" /\ a.v # 0
        \/ a.t = "float" /\ a # PyFloat(0)
        \/ a = PyList(<<1>>)}

(* C9: for a BOOLEAN question the score is 0 or 100, and it is 100 exactly
   for a string that, trimmed and lower-cased, is "oui", "yes", "true" or "1",
   and for a truthy non-string; "non", "false", "0", None, False and 0
   score 0. *)
C9_BooleanScore ==
    (Scored /\ IsBoolean) =>
        /\ result.status = "return" /\ result.exact
        /\ result.value \in {0, 100}
        /\ result.value = 100 <=>
              \/ answer.t = "str" /\ answer.v \in C9_AffirmativeStrings
              \/ answer \in C9_TruthyNonStrings
        /\ answer \in {PyStr(<<"n","o","n">>), PyStr(<<"f","a","l","s","e">>),
                       PyStr(<<"0">>), None, PyBool(FALSE), PyInt(0)}
              => result.value = 0

(* C9 witness: the answer " Oui " to a BOOLEAN question scored 100. *)
C9_Witness ==
    /\ IsBoolean /\ answer = PyStr(<<" ","O","u","i"," ">>)
    /\ result = [status |-> "return", value |-> 100, exact |-> TRUE]

(* C10: a question whose type is neither "stars" nor "boolean" makes
   score_question raise ValueError for every answer, None included; no score
   is returned. *)
C10_UnknownTypeRaises ==
    (Scored /\ ~IsRating /\ ~IsBoolean) => result = Fail("ValueError")

(* C10 witness: a question of type "text" with no answer raised ValueError. *)
C10_Witness ==
    /\ question.type = "text" /\ answer = None
    /\ result = Fail("ValueError")

-----------------------------------------------------------------------------
(* Float sums, products and quotients, for score_domain and score_global.
   A float of either sign is [s, m, e]: s is 1 or -1 and m, e are as above,
   or s is 0 and the float is zero (-0.0 equals 0.0 in every comparison the
   program makes, and is not told from it).  Overflow and subnormals are out
   of reach of the weights and scores used. *)

FZero == [s |-> 0, m |-> <<>>, e |-> 0]
Signed(s, x) == [s |-> s, m |-> x.m, e |-> x.e]

Abs(n) == IF n < 0 THEN 0 - n ELSE n
Sign(n) == IF n < 0 THEN -1 ELSE IF n > 0 THEN 1 ELSE 0

(* float(n) for an int n *)
FloatOfInt(n) ==
    IF n = 0 THEN FZero ELSE Signed(Sign(n), RoundBits(IntToBits(Abs(n)), 0, FALSE))

(* The float a decimal literal of t tenths denotes: the nearest to t / 10 *)
FloatOfTenths(t) ==
    IF t = 0 THEN FZero ELSE Signed(Sign(t), FloatDiv(Abs(t), 10))

(* The float a Python number holds or converts to in float arithmetic *)
float(a) == IF a.t = "int" THEN FloatOfInt(a.v) ELSE FloatOfTenths(a.v)

(* Lexicographic comparison of two sequences of the same length: -1, 0, 1 *)
CmpSeq(a, b) ==
    LET d == {i \in 1..Len(a) : a[i] # b[i]}
    IN IF d = {} THEN 0
       ELSE LET i == CHOOSE i \in d : \A j \in d : i <= j
            IN IF a[i] > b[i] THEN 1 ELSE -1

CmpMag(x, y) == IF x.e # y.e THEN (IF x.e > y.e THEN 1 ELSE -1) ELSE CmpSeq(x.m, y.m)

(* x < y, x == y, x > y as -1, 0, 1 *)
FloatCmp(x, y) ==
    IF x.s # y.s THEN (IF x.s > y.s THEN 1 ELSE -1)
    ELSE IF x.s = 0 THEN 0
    ELSE x.s * CmpMag(x, y)

(* a + b + carry on limb sequences of the same length, from the last limb *)
RECURSIVE AddLimbs(_, _, _, _, _)
AddLimbs(a, b, i, carry, acc) ==
    IF i = 0 THEN (IF carry > 0 THEN <<carry>> \o acc ELSE acc)
    ELSE LET t == a[i] + b[i] + carry
         IN AddLimbs(a, b, i - 1, t \div Limb.base, <<t % Limb.base>> \o acc)

(* a - b - borrow on limb sequences of the same length, a >= b *)
RECURSIVE SubLimbs(_, _, _, _, _)
SubLimbs(a, b, i, borrow, acc) ==
    IF i = 0 THEN acc
    ELSE LET t == a[i] - b[i] - borrow
         IN SubLimbs(a, b, i - 1, IF t < 0 THEN 1 ELSE 0,
                     <<IF t < 0 THEN t + Limb.base ELSE t>> \o acc)

PadTo(b, n) == Zeros(n - Len(b)) \o b

AddBits(a, b) ==
    LET n == Max(Len(a), Len(b))
        la == ToLimbs(PadTo(a, n))
        lb == ToLimbs(PadTo(b, n))
    IN StripLeadingZeros(FromLimbs(AddLimbs(la, lb, Len(la), 0, <<>>)))

SubBits(a, b) ==
    LET n == Max(Len(a), Len(b))
        la == ToLimbs(PadTo(a, n))
        lb == ToLimbs(PadTo(b, n))
    IN StripLeadingZeros(FromLimbs(SubLimbs(la, lb, Len(la), 0, <<>>)))

(* |x| + |y| and |x| - |y| (|x| > |y|), exact and then rounded once *)
AddMag(x, y) ==
    LET e == Min(x.e, y.e)
    IN RoundBits(AddBits(x.m \o Zeros(x.e - e), y.m \o Zeros(y.e - e)), e, FALSE)

SubMag(x, y) ==
    LET e == Min(x.e, y.e)
    IN RoundBits(SubBits(x.m \o Zeros(x.e - e), y.m \o Zeros(y.e - e)), e, FALSE)

(* x + y *)
FloatAdd(x, y) ==
    IF x.s = 0 THEN y
    ELSE IF y.s = 0 THEN x
    ELSE IF Abs(x.e - y.e) > Prec + 2 THEN (IF x.e > y.e THEN x ELSE y)
    ELSE IF x.s = y.s THEN Signed(x.s, AddMag(x, y))
    ELSE LET c == CmpMag(x, y)
         IN IF c = 0 THEN FZero
            ELSE IF c > 0 THEN Signed(x.s, SubMag(x, y))
            ELSE Signed(y.s, SubMag(y, x))

(* The significand of x without its trailing zero bits, as an int *)
ShortBits(x) ==
    LET n == CHOOSE i \in 1..Prec : x.m[i] = 1 /\ \A j \in (i + 1)..Prec : x.m[j] = 0
    IN [k |-> BitsToInt(SubSeq(x.m, 1, n)), e |-> x.e + (Prec - n)]

(* x * y, for y a float whose significand is short (below Limb.base), as
   every score is *)
FloatTimes(x, y) ==
    IF x.s = 0 \/ y.s = 0 THEN FZero
    ELSE LET k == ShortBits(y)
         IN Signed(x.s * y.s, RoundBits(MulAddBits(x.m, k.k, 0), x.e + k.e, FALSE))

(* One step of the long division of r by d, limb sequences of the same
   length with r < d and the first limb of d at least Limb.base / 2: the
   next quotient limb and the remainder it leaves.  The quotient of the two
   leading limbs of r by the leading limb of d is the limb or exceeds it by
   at most two. *)
QuotDigit(r, d) ==
    LET n == r \o <<0>>
        est == Min(Limb.base - 1, (n[1] * Limb.base + n[2]) \div d[1])
        Times(c) == LET p == MulAddLimbs(d, c, Len(d), 0, <<>>)
                    IN IF Len(p) < Len(n) THEN <<0>> \o p ELSE p
        Fits(c) == CmpSeq(Times(c), n) <= 0
        c == IF Fits(est) THEN est ELSE IF Fits(est - 1) THEN est - 1 ELSE est - 2
    IN [digit |-> c, r |-> Tail(SubLimbs(n, Times(c), Len(n), 0, <<>>))]

(* n limbs of the quotient r / d, most significant first, and the remainder
   left; once nothing remains the limbs left are zero *)
RECURSIVE QuotLimbs(_, _, _, _)
QuotLimbs(r, d, n, q) ==
    IF n = 0 \/ \A i \in 1..Len(r) : r[i] = 0 THEN [digits |-> q \o Zeros(n), r |-> r]
    ELSE LET s == QuotDigit(r, d)
         IN QuotLimbs(s.r, d, n - 1, Append(q, s.digit))

(* x / y for y # 0: the significands, shifted to fill their limbs, are
   divided to four limbs below the point, and the quotient is rounded once *)
FloatQuot(x, y) ==
    IF x.s = 0 THEN FZero
    ELSE LET n == 4
             pad == Zeros(n * Limb.bits - Prec)
             lx == ToLimbs(x.m \o pad)
             ly == ToLimbs(y.m \o pad)
             ge == CmpSeq(lx, ly) >= 0
             r == IF ge THEN SubLimbs(lx, ly, Len(lx), 0, <<>>) ELSE lx
             q == QuotLimbs(r, ly, n, <<>>)
             b == <<IF ge THEN 1 ELSE 0>> \o FromLimbs(q.digits)
         IN Signed(x.s * y.s,
                   RoundBits(StripLeadingZeros(b), x.e - y.e - n * Limb.bits,
                             \E i \in 1..Len(q.r) : q.r[i] # 0))

-----------------------------------------------------------------------------
(* score_domain *)

ReturnFloat(x) == [status |-> "return", float |-> x]

(* ans = answers.get(q.id) *)
Get(d, key) == IF DictHas(d, key) THEN DictGet(d, key) ELSE None

RECURSIVE ScoreLoop(_, _, _, _, _)

(* Faulty variant: a question the map has no answer for is skipped, weight
   and all *)
ScoreStepAnswered(questions, answers, i, total_score, total_weight, qs) ==
    IF ~DictHas(answers, questions[i].id)
    THEN ScoreLoop(questions, answers, i + 1, total_score, total_weight)
    ELSE IF qs.status # "return" THEN Fail(qs.status)
    ELSE ScoreLoop(questions, answers, i + 1,
                   FloatAdd(total_score,
                            FloatTimes(float(questions[i].weight), FloatOfInt(qs.value))),
                   FloatAdd(total_weight, float(questions[i].weight)))

(* Faulty variant: a question that scores 0 is left out of the mean, weight
   and all *)
ScoreStepNonZero(questions, answers, i, total_score, total_weight, qs) ==
    IF qs.status # "return" THEN Fail(qs.status)
    ELSE IF qs.value = 0
    THEN ScoreLoop(questions, answers, i + 1, total_score, total_weight)
    ELSE ScoreLoop(questions, answers, i + 1,
                   FloatAdd(total_score,
                            FloatTimes(float(questions[i].weight), FloatOfInt(qs.value))),
                   FloatAdd(total_weight, float(questions[i].weight)))

(* The loop body once qs = score_question(q, ans) is known: total_score +=
   q.weight * qs; total_weight += q.weight.  Every score score_question
   returns is a whole number held exactly, so float(qs) is the float of its
   value. *)
ScoreStep(questions, answers, i, total_score, total_weight, qs) ==
    IF qs.status # "return" THEN Fail(qs.status)
    ELSE ScoreLoop(questions, answers, i + 1,
                   FloatAdd(total_score,
                            FloatTimes(float(questions[i].weight), FloatOfInt(qs.value))),
                   FloatAdd(total_weight, float(questions[i].weight)))

(* for q in domain.questions: ... *)
ScoreLoop(questions, answers, i, total_score, total_weight) ==
    IF i > Len(questions)
    THEN [status |-> "return", total_score |-> total_score, total_weight |-> total_weight]
    ELSE ScoreStep(questions, answers, i, total_score, total_weight,
                   score_question(questions[i], Get(answers, questions[i].id)))

(* if total_weight == 0: return 0.0; return total_score / total_weight *)
ScoreDomainReturn(t) ==
    IF t.status # "return" THEN t
    ELSE IF t.total_weight.s = 0 THEN ReturnFloat(FZero)
    ELSE ReturnFloat(FloatQuot(t.total_score, t.total_weight))

score_domain(domain, answers) ==
    ScoreDomainReturn(ScoreLoop(domain.questions, answers, 1, FZero, FZero))

(* The inputs score_domain is applied to: a domain of up to two questions,
   and an answer map over their ids, so that an id can be missing from the
   map and the map can hold an id the domain has not *)
DomainTypes == {"stars", "boolean", "text"}
DomainWeights == {PyFloat(10), PyFloat(3), PyFloat(6), PyInt(0), PyInt(-1)}
QuestionIds == <<"q1", "q2">>
DomainAnswers == {PyInt(4), PyBool(TRUE), PyFloatSpecial("inf")}

QuestionAt(i) ==
    {[id |-> QuestionIds[i], type |-> t, text |-> "t", weight |-> w] :
        t \in DomainTypes, w \in DomainWeights}

QuestionLists ==
    {<<>>} \cup {<<a>> : a \in QuestionAt(1)}
           \cup {<<a, b>> : a \in QuestionAt(1), b \in QuestionAt(2)}

Domains ==
    {[id |-> "d", label |-> "D", description |-> "", questions |-> qs] :
        qs \in QuestionLists}

AnswerAt(i) == {[k |-> QuestionIds[i], v |-> a] : a \in DomainAnswers}

AnswerMaps ==
    {<<>>} \cup {<<a>> : a \in AnswerAt(1) \cup AnswerAt(2)}
           \cup {<<a, b>> : a \in AnswerAt(1), b \in AnswerAt(2)}

(* The call of score_domain on the inputs drawn *)
ScoreDomain ==
    /\ domain_score = None
    /\ domain_score' = score_domain(domain_arg, answers_arg)
    /\ UNCHANGED <<buildVars, scoreVars, domain_arg, answers_arg, analysisVars,
                 classifyVars, templateVars, loadVars, replayVars>>

InitDomain ==
    /\ CatalogueLoaded(DocA)
    /\ calls = <<>>
    /\ nmut = 0
    /\ question = None /\ answer = None /\ result = None
    /\ domain_arg \in Domains /\ answers_arg \in AnswerMaps /\ domain_score = None
    /\ domains_arg = None /\ all_answers_arg = None
    /\ domain_scores = None /\ weak_points = None /\ strong_points = None
    /\ score_arg = None /\ level = None
    /\ template = None
    /\ files = None /\ path_arg = None /\ loaded_answers = None
    /\ new_answers = None /\ new_scores = None

NextDomain == ScoreDomain

SpecDomain == InitDomain /\ [][NextDomain]_vars

-----------------------------------------------------------------------------
(* Properties of score_domain, checked under SpecDomain *)

DomainScored == domain_score # None
NQuestions == Len(domain_arg.questions)

(* The score of question i: its answer is the map's entry for its id, and no
   answer when the map has none *)
QuestionScore(i) ==
    LET q == domain_arg.questions[i]
    IN score_question(q, IF DictHas(answers_arg, q.id) THEN DictGet(answers_arg, q.id) ELSE None)

AllScored == \A i \in 1..NQuestions : QuestionScore(i).status = "return"
KnownKinds == \A i \in 1..NQuestions : domain_arg.questions[i].type \in {"stars", "boolean"}

(* sum(...) over a sequence of floats, left to right *)
RECURSIVE FloatSum(_, _)
FloatSum(xs, n) == IF n = 0 THEN FZero ELSE FloatAdd(FloatSum(xs, n - 1), xs[n])

WeightedScores ==
    [i \in 1..NQuestions |->
        FloatTimes(float(domain_arg.questions[i].weight), FloatOfInt(QuestionScore(i).value))]
FloatWeights == [i \in 1..NQuestions |-> float(domain_arg.questions[i].weight)]
TotalWeight == FloatSum(FloatWeights, NQuestions)

(* The weights in tenths, and with them the weighted mean in exact arithmetic *)
Tenths(w) == IF w.t = "int" THEN 10 * w.v ELSE w.v

RECURSIVE ExactScoreSum(_)
ExactScoreSum(n) ==
    IF n = 0 THEN 0
    ELSE ExactScoreSum(n - 1) + QuestionScore(n).value * Tenths(domain_arg.questions[n].weight)

RECURSIVE ExactWeightSum(_)
ExactWeightSum(n) ==
    IF n = 0 THEN 0 ELSE ExactWeightSum(n - 1) + Tenths(domain_arg.questions[n].weight)

(* The float nearest to the exact weighted mean *)
ExactMean ==
    FloatQuot(FloatOfInt(ExactScoreSum(NQuestions)), FloatOfInt(ExactWeightSum(NQuestions)))

Negated(x) == [x EXCEPT !.s = 0 - x.s]

(* |x - y| < 2^k *)
Within(x, y, k) ==
    LET d == FloatAdd(x, Negated(y)) IN d.s = 0 \/ d.e + Prec <= k

WholeWeights == \A i \in 1..NQuestions : Tenths(domain_arg.questions[i].weight) % 10 = 0
NoNegativeWeight == \A i \in 1..NQuestions : Tenths(domain_arg.questions[i].weight) >= 0
PositiveWeights == \A i \in 1..NQuestions : Tenths(domain_arg.questions[i].weight) > 0

RatingAndBoolean(w1, w2) ==
    [id |-> "d", label |-> "D", description |-> "",
     questions |-> << [id |-> "q1", type |-> "stars", text |-> "t", weight |-> w1],
                      [id |-> "q2", type |-> "boolean", text |-> "t", weight |-> w2] >>]

(* C11: score_domain is sum(score_question(q, answers[q.id]) * q.weight) /
   sum(q.weight) over the domain's questions, in Python's float arithmetic; a
   question whose id the map lacks is scored as unanswered and its weight
   still counts in the denominator.  With no negative weight the result is
   the exact weighted mean up to float rounding (exactly its nearest float
   when the weights are whole numbers): a rating of 4 and a boolean true,
   both of weight 1, give 90.0. *)
C11_WeightedMean ==
    (DomainScored /\ AllScored /\ TotalWeight.s # 0) =>
        /\ domain_score.status = "return"
        /\ domain_score.float = FloatQuot(FloatSum(WeightedScores, NQuestions), TotalWeight)
        /\ NoNegativeWeight => Within(domain_score.float, ExactMean, 0 - 40)
        /\ (NoNegativeWeight /\ WholeWeights) => domain_score.float = ExactMean
        /\ (/\ domain_arg = RatingAndBoolean(PyFloat(10), PyFloat(10))
            /\ DictKeys(answers_arg) = {"q1", "q2"}
            /\ DictGet(answers_arg, "q1") = PyInt(4)
            /\ DictGet(answers_arg, "q2") = PyBool(TRUE)) => domain_score.float = FloatOfInt(90)

(* C11 witness: a rating of weight 0.3 whose id the map lacks and a boolean
   of weight 0.6 answered true: 100 * 0.6 / 0.9, a float within 2^-4 of 66.7
   and not the 100 that leaving the rating out of the denominator gives. *)
C11_Witness ==
    /\ domain_arg = RatingAndBoolean(PyFloat(3), PyFloat(6))
    /\ answers_arg = << [k |-> "q2", v |-> PyBool(TRUE)] >>
    /\ DomainScored /\ domain_score.status = "return"
    /\ Within(domain_score.float, FloatOfTenths(667), 0 - 4)
    /\ ~Within(domain_score.float, FloatOfInt(100), 0)

(* C12: score_domain returns exactly 0.0 when the domain has no question or
   its weights sum to zero, whatever the answer map holds; stated here for
   domains of RATING and BOOLEAN questions only. *)
C12_ZeroWeightReturnsZero ==
    (DomainScored /\ KnownKinds /\ (NQuestions = 0 \/ TotalWeight.s = 0)) =>
        domain_score = ReturnFloat(FZero)

(* C13: when every question is RATING or BOOLEAN and every weight is
   positive, the score score_domain returns lies in [0, 100]. *)
C13_DomainScoreWithinRange ==
    (DomainScored /\ KnownKinds /\ PositiveWeights /\ NQuestions > 0
        /\ domain_score.status = "return") =>
        /\ FloatCmp(domain_score.float, FZero) >= 0
        /\ FloatCmp(domain_score.float, FloatOfInt(100)) <= 0

-----------------------------------------------------------------------------
(* score_global *)

ReturnDict(d) == [status |-> "return", dict |-> d]

(* all_answers.get(domain_id, {}) *)
GetOrEmpty(d, key) == IF DictHas(d, key) THEN DictGet(d, key) ELSE <<>>

RECURSIVE GlobalLoop(_, _, _, _, _, _)

(* Faulty variant: a domain with no answers gets no entry at all *)
GlobalStepAnsweredOnly(domains, all_answers, i, d_scores, sum_scores, count, d_answers, s) ==
    IF s.status # "return" THEN Fail(s.status)
    ELSE IF d_answers # <<>>
    THEN GlobalLoop(domains, all_answers, i + 1,
                    DictPut(d_scores, domains[i].k, s.float),
                    FloatAdd(sum_scores, s.float), count + 1)
    ELSE GlobalLoop(domains, all_answers, i + 1, d_scores, sum_scores, count)

(* Faulty variant: every domain counts in the mean, answered or not *)
GlobalStepCountAll(domains, all_answers, i, d_scores, sum_scores, count, d_answers, s) ==
    IF s.status # "return" THEN Fail(s.status)
    ELSE GlobalLoop(domains, all_answers, i + 1,
                    DictPut(d_scores, domains[i].k, s.float),
                    FloatAdd(sum_scores, s.float), count + 1)

(* Faulty variant: a domain counts only when some entry of its sub-map is not
   null *)
GlobalStepNonNull(domains, all_answers, i, d_scores, sum_scores, count, d_answers, s) ==
    IF s.status # "return" THEN Fail(s.status)
    ELSE IF \E e \in 1..Len(d_answers) : d_answers[e].v # None
    THEN GlobalLoop(domains, all_answers, i + 1,
                    DictPut(d_scores, domains[i].k, s.float),
                    FloatAdd(sum_scores, s.float), count + 1)
    ELSE GlobalLoop(domains, all_answers, i + 1,
                    DictPut(d_scores, domains[i].k, s.float),
                    sum_scores, count)

(* The loop body once s = score_domain(domain, d_answers) is known:
   domain_scores[domain_id] = s; if d_answers: sum_scores += s; count += 1 *)
GlobalStep(domains, all_answers, i, d_scores, sum_scores, count, d_answers, s) ==
    IF s.status # "return" THEN Fail(s.status)
    ELSE IF d_answers # <<>>
    THEN GlobalLoop(domains, all_answers, i + 1,
                    DictPut(d_scores, domains[i].k, s.float),
                    FloatAdd(sum_scores, s.float), count + 1)
    ELSE GlobalLoop(domains, all_answers, i + 1,
                    DictPut(d_scores, domains[i].k, s.float),
                    sum_scores, count)

(* for domain_id, domain in domains.items(): ... *)
GlobalLoop(domains, all_answers, i, d_scores, sum_scores, count) ==
    IF i > Len(domains)
    THEN [status |-> "return", d_scores |-> d_scores,
          sum_scores |-> sum_scores, count |-> count]
    ELSE LET d_answers == GetOrEmpty(all_answers, domains[i].k)
         IN GlobalStep(domains, all_answers, i, d_scores, sum_scores, count,
                       d_answers, score_domain(domains[i].v, d_answers))

(* Faulty variant: the mean is stored only when the map has no entry
   __global__ yet, as with setdefault *)
GlobalReturnKeep(t) ==
    IF t.status # "return" THEN t
    ELSE IF DictHas(t.d_scores, "__global__") THEN ReturnDict(t.d_scores)
    ELSE ReturnDict(DictPut(t.d_scores, "__global__",
                            IF t.count > 0
                            THEN FloatQuot(t.sum_scores, FloatOfInt(t.count))
                            ELSE FZero))

(* domain_scores["__global__"] = sum_scores / count if count > 0 else 0.0 *)
GlobalReturn(t) ==
    IF t.status # "return" THEN t
    ELSE ReturnDict(DictPut(t.d_scores, "__global__",
                            IF t.count > 0
                            THEN FloatQuot(t.sum_scores, FloatOfInt(t.count))
                            ELSE FZero))

score_global(domains, all_answers) ==
    GlobalReturn(GlobalLoop(domains, all_answers, 1, <<>>, FZero, 0))

-----------------------------------------------------------------------------
(* questionnaire.py: classify_domain, extract_weak_points, extract_strong_points *)

STRONG_THRESHOLD == 75
IMPROVE_THRESHOLD == 40

(* Faulty variant: the two boundaries fall to the lower tier *)
classify_domain_strict(score) ==
    IF FloatCmp(score, FloatOfInt(STRONG_THRESHOLD)) > 0 THEN "fort"
    ELSE IF FloatCmp(score, FloatOfInt(IMPROVE_THRESHOLD)) > 0 THEN "améliorer"
    ELSE "critique"

classify_domain(score) ==
    IF FloatCmp(score, FloatOfInt(STRONG_THRESHOLD)) >= 0 THEN "fort"
    ELSE IF FloatCmp(score, FloatOfInt(IMPROVE_THRESHOLD)) >= 0 THEN "améliorer"
    ELSE "critique"

(* sorted(items, key=lambda kv: kv[1], reverse=...): a stable sort, so an
   entry goes after every entry already placed that does not sort after it *)
InsertSorted(sorted, kv, reverse) ==
    LET n == Cardinality({j \in 1..Len(sorted) :
                            IF reverse THEN FloatCmp(sorted[j].v, kv.v) >= 0
                            ELSE FloatCmp(sorted[j].v, kv.v) <= 0})
    IN SubSeq(sorted, 1, n) \o <<kv>> \o SubSeq(sorted, n + 1, Len(sorted))

RECURSIVE SortedByValue(_, _, _)
SortedByValue(items, n, reverse) ==
    IF n = 0 THEN <<>>
    ELSE InsertSorted(SortedByValue(items, n - 1, reverse), items[n], reverse)

RECURSIVE ExtractLoop(_, _, _, _, _)

(* Faulty variant: the test "if not d_ans: continue" is missing *)
ExtractStepUnanswered(domains, all_answers, i, scores, strong, d_ans, s) ==
    IF s.status # "return" THEN Fail(s.status)
    ELSE IF (classify_domain(s.float) = "fort") = strong
    THEN ExtractLoop(domains, all_answers, i + 1,
                     DictPut(scores, domains[i].k, s.float), strong)
    ELSE ExtractLoop(domains, all_answers, i + 1, scores, strong)

(* Faulty variant: the score is computed before the test "if not d_ans" *)
ExtractStepScoreFirst(domains, all_answers, i, scores, strong, d_ans, s) ==
    IF s.status # "return" THEN Fail(s.status)
    ELSE IF d_ans = <<>> THEN ExtractLoop(domains, all_answers, i + 1, scores, strong)
    ELSE IF (classify_domain(s.float) = "fort") = strong
    THEN ExtractLoop(domains, all_answers, i + 1,
                     DictPut(scores, domains[i].k, s.float), strong)
    ELSE ExtractLoop(domains, all_answers, i + 1, scores, strong)

(* The loop body once s = score_domain(domain, d_ans) is known *)
ExtractStep(domains, all_answers, i, scores, strong, d_ans, s) ==
    IF d_ans = <<>> THEN ExtractLoop(domains, all_answers, i + 1, scores, strong)
    ELSE IF s.status # "return" THEN Fail(s.status)
    ELSE IF (classify_domain(s.float) = "fort") = strong
    THEN ExtractLoop(domains, all_answers, i + 1,
                     DictPut(scores, domains[i].k, s.float), strong)
    ELSE ExtractLoop(domains, all_answers, i + 1, scores, strong)

(* The loop of extract_weak_points (strong = FALSE) and of
   extract_strong_points (strong = TRUE) *)
ExtractLoop(domains, all_answers, i, scores, strong) ==
    IF i > Len(domains) THEN ReturnDict(scores)
    ELSE LET d_ans == GetOrEmpty(all_answers, domains[i].k)
         IN ExtractStep(domains, all_answers, i, scores, strong,
                        d_ans, score_domain(domains[i].v, d_ans))

(* return dict(sorted(scores.items(), key=lambda kv: kv[1], reverse=...)) *)
SortedReturn(t, reverse) ==
    IF t.status # "return" THEN t
    ELSE ReturnDict(SortedByValue(t.dict, Len(t.dict), reverse))

(* Faulty variant: return scores, the sort forgotten *)
extract_weak_points_unsorted(domains, all_answers) ==
    ExtractLoop(domains, all_answers, 1, <<>>, FALSE)

extract_weak_points(domains, all_answers) ==
    SortedReturn(ExtractLoop(domains, all_answers, 1, <<>>, FALSE), FALSE)

(* Faulty variant: reverse=True forgotten *)
extract_strong_points_ascending(domains, all_answers) ==
    SortedReturn(ExtractLoop(domains, all_answers, 1, <<>>, TRUE), FALSE)

extract_strong_points(domains, all_answers) ==
    SortedReturn(ExtractLoop(domains, all_answers, 1, <<>>, TRUE), TRUE)

(* The inputs of the analysis: the domains a build returned, here up to three
   domains of two ratings with weights 3 and 1.0, and an answer set that for
   each of the three ids has no entry, an empty sub-map, or a sub-map of two
   ratings, so that the answer set can hold an id the domains have not *)
AnalysisDomainIds == <<"finance", "rh", "si">>

AnalysisDomain(i) ==
    [id |-> AnalysisDomainIds[i], label |-> "L", description |-> "",
     questions |-> << [id |-> "q1", type |-> "stars", text |-> "t", weight |-> PyInt(3)],
                      [id |-> "q2", type |-> "stars", text |-> "t", weight |-> PyFloat(10)] >>]

AnalysisDomains(n) == [i \in 1..n |-> [k |-> AnalysisDomainIds[i], v |-> AnalysisDomain(i)]]

(* {"q1": a, "q2": b}: scores (60 a + 20 b) / 4 on an AnalysisDomain *)
Rated(a, b) == << [k |-> "q1", v |-> PyInt(a)], [k |-> "q2", v |-> PyInt(b)] >>

SubMaps == {<<>>, Rated(0, 0), Rated(2, 0), Rated(3, 1), Rated(5, 0), Rated(5, 3)}

SubMapChoices ==
    {[has |-> FALSE, map |-> <<>>]} \cup {[has |-> TRUE, map |-> m] : m \in SubMaps}

AnswerEntry(c, i) ==
    IF c[i].has THEN << [k |-> AnalysisDomainIds[i], v |-> c[i].map] >> ELSE <<>>

AllAnswers(c) == AnswerEntry(c, 1) \o AnswerEntry(c, 2) \o AnswerEntry(c, 3)

(* domain_scores = score_global(domains, all_answers) *)
ScoreGlobal ==
    /\ domain_scores = None
    /\ domain_scores' = score_global(domains_arg, all_answers_arg)
    /\ UNCHANGED <<buildVars, scoreVars, domainVars, domains_arg, all_answers_arg,
                   weak_points, strong_points, classifyVars, templateVars, loadVars, replayVars>>

(* weak_points = extract_weak_points(domains, all_answers) *)
ExtractWeakPoints ==
    /\ domain_scores # None /\ weak_points = None
    /\ weak_points' = extract_weak_points(domains_arg, all_answers_arg)
    /\ UNCHANGED <<buildVars, scoreVars, domainVars, domains_arg, all_answers_arg,
                   domain_scores, strong_points, classifyVars, templateVars, loadVars, replayVars>>

(* strong_points = extract_strong_points(domains, all_answers) *)
ExtractStrongPoints ==
    /\ weak_points # None /\ strong_points = None
    /\ strong_points' = extract_strong_points(domains_arg, all_answers_arg)
    /\ UNCHANGED <<buildVars, scoreVars, domainVars, domains_arg, all_answers_arg,
                   domain_scores, weak_points, classifyVars, templateVars, loadVars, replayVars>>

InitAnalysis ==
    /\ CatalogueLoaded(DocA)
    /\ calls = <<>>
    /\ nmut = 0
    /\ question = None /\ answer = None /\ result = None
    /\ domain_arg = None /\ answers_arg = None /\ domain_score = None
    /\ \E n \in 0..Len(AnalysisDomainIds) : domains_arg = AnalysisDomains(n)
    /\ \E c \in [1..Len(AnalysisDomainIds) -> SubMapChoices] : all_answers_arg = AllAnswers(c)
    /\ domain_scores = None /\ weak_points = None /\ strong_points = None
    /\ score_arg = None /\ level = None
    /\ template = None
    /\ files = None /\ path_arg = None /\ loaded_answers = None
    /\ new_answers = None /\ new_scores = None

NextAnalysis == ScoreGlobal \/ ExtractWeakPoints \/ ExtractStrongPoints

SpecAnalysis == InitAnalysis /\ [][NextAnalysis]_vars

-----------------------------------------------------------------------------
(* Properties of score_global and of the extractions, checked under
   SpecAnalysis *)

NDomains == Len(domains_arg)
DomainIdSet == {domains_arg[i].k : i \in 1..NDomains}

(* The sub-map the answer set has for domain i, empty when it has none *)
SubMapOf(i) ==
    IF DictHas(all_answers_arg, domains_arg[i].k)
    THEN DictGet(all_answers_arg, domains_arg[i].k) ELSE <<>>

Answered(i) == SubMapOf(i) # <<>>
DomainScore(i) == score_domain(domains_arg[i].v, SubMapOf(i)).float

GlobalOf(r) == DictGet(r.dict, "__global__")

(* C14: score_global returns an entry for every domain of domains, none for
   an id only the answer set has, and the entry __global__; a domain whose
   sub-map is empty or missing has the entry 0.0, and the global mean is what
   it would be without that domain. *)
C14_EntryPerDomain ==
    domain_scores # None =>
        /\ domain_scores.status = "return"
        /\ DictKeys(domain_scores.dict) = DomainIdSet \cup {"__global__"}
        /\ Len(domain_scores.dict) = NDomains + 1
        /\ \A i \in 1..NDomains :
              /\ DictGet(domain_scores.dict, domains_arg[i].k) = DomainScore(i)
              /\ ~Answered(i) =>
                    /\ DictGet(domain_scores.dict, domains_arg[i].k) = FZero
                    /\ GlobalOf(score_global(RemoveAt(domains_arg, i), all_answers_arg))
                          = GlobalOf(domain_scores)

(* C14 witness: two domains, finance answered (30), rh with an empty sub-map,
   and an answer set that also holds si: three entries, none for si. *)
C14_Witness ==
    /\ domains_arg = AnalysisDomains(2)
    /\ all_answers_arg = << [k |-> "finance", v |-> Rated(2, 0)],
                            [k |-> "rh", v |-> <<>>],
                            [k |-> "si", v |-> Rated(5, 3)] >>
    /\ domain_scores = ReturnDict(<< [k |-> "finance", v |-> FloatOfInt(30)],
                                     [k |-> "rh", v |-> FZero],
                                     [k |-> "__global__", v |-> FloatOfInt(30)] >>)

(* sum of the scores of the answered domains among the first n, as floats
   added left to right and as whole numbers, and their count *)
RECURSIVE AnsweredFloatSum(_)
AnsweredFloatSum(n) ==
    IF n = 0 THEN FZero
    ELSE IF Answered(n) THEN FloatAdd(AnsweredFloatSum(n - 1), DomainScore(n))
    ELSE AnsweredFloatSum(n - 1)

RECURSIVE AnsweredSum(_)
AnsweredSum(n) ==
    IF n = 0 THEN 0
    ELSE IF Answered(n) THEN AnsweredSum(n - 1) + FloatValue(DomainScore(n)).value
    ELSE AnsweredSum(n - 1)

AnsweredCount == Cardinality({i \in 1..NDomains : Answered(i)})
WholeScores ==
    \A i \in 1..NDomains :
        Answered(i) => DomainScore(i).s = 0 \/ FloatValue(DomainScore(i)).exact

(* C15: the entry __global__ is the unweighted mean of score_domain over the
   domains whose sub-map is non-empty, and 0.0 when there is none: a domain
   with only zero answers counts with its 0.0, a domain without entries does
   not count. *)
C15_GlobalIsMeanOfAnswered ==
    (domain_scores # None /\ domain_scores.status = "return") =>
        /\ AnsweredCount = 0 => GlobalOf(domain_scores) = FZero
        /\ AnsweredCount > 0 =>
              /\ GlobalOf(domain_scores) =
                    FloatQuot(AnsweredFloatSum(NDomains), FloatOfInt(AnsweredCount))
              /\ WholeScores =>
                    GlobalOf(domain_scores) =
                        FloatQuot(FloatOfInt(AnsweredSum(NDomains)), FloatOfInt(AnsweredCount))

(* C15 witness: finance answered with zeros only (0.0), rh scoring 90 and si
   with an empty sub-map: the global mean is (0 + 90) / 2 = 45. *)
C15_Witness ==
    /\ domains_arg = AnalysisDomains(3)
    /\ all_answers_arg = << [k |-> "finance", v |-> Rated(0, 0)],
                            [k |-> "rh", v |-> Rated(5, 3)],
                            [k |-> "si", v |-> <<>>] >>
    /\ domain_scores # None /\ domain_scores.status = "return"
    /\ GlobalOf(domain_scores) = FloatOfInt(45)

Below(x, n) == FloatCmp(x, FloatOfInt(n)) < 0

(* C17: extract_weak_points returns exactly the domains with a non-empty
   sub-map and a score below 75, each with its score, in ascending order of
   score: scores 30, 50 and 90 give [30, 50]. *)
C17_WeakPointsAscending ==
    weak_points # None =>
        /\ weak_points.status = "return"
        /\ LET w == weak_points.dict
           IN /\ DictKeys(w) = {domains_arg[i].k : i \in {j \in 1..NDomains :
                                    Answered(j) /\ Below(DomainScore(j), 75)}}
              /\ Len(w) = Cardinality(DictKeys(w))
              /\ \A i \in 1..NDomains :
                    DictHas(w, domains_arg[i].k) =>
                        DictGet(w, domains_arg[i].k) = DomainScore(i)
              /\ \A i \in 1..Len(w) : \A j \in i..Len(w) : FloatCmp(w[i].v, w[j].v) <= 0
        /\ (/\ NDomains = 3
            /\ DomainScore(1) = FloatOfInt(30)
            /\ DomainScore(2) = FloatOfInt(50)
            /\ DomainScore(3) = FloatOfInt(90)
            /\ \A i \in 1..3 : Answered(i)) =>
                 weak_points.dict = << [k |-> "finance", v |-> FloatOfInt(30)],
                                       [k |-> "rh", v |-> FloatOfInt(50)] >>

(* C17 witness: finance 50, rh 90, si 30: the weak points are si (30) and
   then finance (50). *)
C17_Witness ==
    /\ domains_arg = AnalysisDomains(3)
    /\ all_answers_arg = << [k |-> "finance", v |-> Rated(3, 1)],
                            [k |-> "rh", v |-> Rated(5, 3)],
                            [k |-> "si", v |-> Rated(2, 0)] >>
    /\ weak_points = ReturnDict(<< [k |-> "si", v |-> FloatOfInt(30)],
                                   [k |-> "finance", v |-> FloatOfInt(50)] >>)

(* C18: extract_strong_points returns exactly the domains with a non-empty
   sub-map and a score of 75 or more, each with its score, in descending
   order of score. *)
C18_StrongPointsDescending ==
    strong_points # None =>
        /\ strong_points.status = "return"
        /\ LET w == strong_points.dict
           IN /\ DictKeys(w) = {domains_arg[i].k : i \in {j \in 1..NDomains :
                                    Answered(j) /\ ~Below(DomainScore(j), 75)}}
              /\ Len(w) = Cardinality(DictKeys(w))
              /\ \A i \in 1..NDomains :
                    DictHas(w, domains_arg[i].k) =>
                        DictGet(w, domains_arg[i].k) = DomainScore(i)
              /\ \A i \in 1..Len(w) : \A j \in i..Len(w) : FloatCmp(w[i].v, w[j].v) >= 0

(* C18 witness: finance 75, rh 30, si 90: the strong points are si (90) and
   then finance (75). *)
C18_Witness ==
    /\ domains_arg = AnalysisDomains(3)
    /\ all_answers_arg = << [k |-> "finance", v |-> Rated(5, 0)],
                            [k |-> "rh", v |-> Rated(2, 0)],
                            [k |-> "si", v |-> Rated(5, 3)] >>
    /\ strong_points = ReturnDict(<< [k |-> "si", v |-> FloatOfInt(90)],
                                     [k |-> "finance", v |-> FloatOfInt(75)] >>)

-----------------------------------------------------------------------------
(* classify_domain on its own: the scores it is applied to are the floats of
   the decimals around the two thresholds and some further off, and the float
   just below each threshold *)

(* The greatest float below x, for x > 0 not a power of two *)
FloatBefore(x) == [x EXCEPT !.m = SubBits(x.m, <<1>>)]

ClassifyTenths ==
    (380..420) \cup (730..770) \cup {0 - 1000, 0 - 1, 0, 1, 200, 599, 1000, 1001, 5000}

ClassifyScores ==
    {FloatOfTenths(t) : t \in ClassifyTenths}
        \cup {FloatBefore(FloatOfInt(STRONG_THRESHOLD)),
              FloatBefore(FloatOfInt(IMPROVE_THRESHOLD))}

ReturnStr(x) == [status |-> "return", str |-> x]

(* The call of classify_domain on the score drawn *)
ClassifyDomain ==
    /\ level = None
    /\ level' = ReturnStr(classify_domain(score_arg))
    /\ UNCHANGED <<buildVars, scoreVars, domainVars, analysisVars, score_arg,
                   templateVars, loadVars, replayVars>>

InitClassify ==
    /\ CatalogueLoaded(DocA)
    /\ calls = <<>>
    /\ nmut = 0
    /\ question = None /\ answer = None /\ result = None
    /\ domain_arg = None /\ answers_arg = None /\ domain_score = None
    /\ domains_arg = None /\ all_answers_arg = None
    /\ domain_scores = None /\ weak_points = None /\ strong_points = None
    /\ score_arg \in ClassifyScores /\ level = None
    /\ template = None
    /\ files = None /\ path_arg = None /\ loaded_answers = None
    /\ new_answers = None /\ new_scores = None

NextClassify == ClassifyDomain

SpecClassify == InitClassify /\ [][NextClassify]_vars

(* score >= n for a whole number n > 0, read off the number the float holds *)
AtLeast(x, n) == x.s > 0 /\ FloatValue(x).value >= n

(* C16: classify_domain gives every score one of three tiers: "fort" exactly
   when the score is at least 75, "améliorer" exactly when it is at least 40
   and below 75, "critique" exactly when it is below 40; 75 and 40 themselves
   fall in the upper tier. *)
C16_ThreeTiers ==
    level # None =>
        /\ level.str \in {"fort", "améliorer", "critique"}
        /\ level.str = "fort" <=> AtLeast(score_arg, 75)
        /\ level.str = "améliorer" <=> (AtLeast(score_arg, 40) /\ ~AtLeast(score_arg, 75))
        /\ level.str = "critique" <=> ~AtLeast(score_arg, 40)
        /\ score_arg = FloatOfInt(75) => level.str = "fort"
        /\ score_arg = FloatOfInt(40) => level.str = "améliorer"
        /\ score_arg = FloatBefore(FloatOfInt(75)) => level.str = "améliorer"
        /\ score_arg = FloatBefore(FloatOfInt(40)) => level.str = "critique"

(* C16 witness: the score 40.0 has been classified "améliorer". *)
C16_Witness == score_arg = FloatOfInt(40) /\ level = ReturnStr("améliorer")

-----------------------------------------------------------------------------
(* generate_empty_answers: the empty answer form of the domains a build
   returned.  It reads the Domain and Question objects of the heap; the heap
   it leaves is part of what it returns. *)

(* for q in domain.questions: domain_answers[q.id] = None *)
RECURSIVE EmptySubMap(_, _, _, _)
EmptySubMap(h, items, i, domain_answers) ==
    IF i > Len(items) THEN domain_answers
    ELSE EmptySubMap(h, items, i + 1, DictPut(domain_answers, h[items[i]].id, None))

(* Faulty variant: the questions are popped off the domain's list as they
   are read *)
RECURSIVE EmptyAnswersPopping(_, _, _, _)
EmptyAnswersPopping(h, domains, i, acc) ==
    IF i > Len(domains) THEN [heap |-> h, result |-> acc]
    ELSE LET l == h[domains[i].v].questions
         IN EmptyAnswersPopping([h EXCEPT ![l].items = <<>>], domains, i + 1,
                DictPut(acc, domains[i].k, EmptySubMap(h, h[l].items, 1, <<>>)))

(* for domain_id, domain in domains.items(): ... result[domain_id] = domain_answers *)
RECURSIVE EmptyAnswersLoop(_, _, _, _)
EmptyAnswersLoop(h, domains, i, acc) ==
    IF i > Len(domains) THEN [heap |-> h, result |-> acc]
    ELSE LET l == h[domains[i].v].questions
         IN EmptyAnswersLoop(h, domains, i + 1,
                DictPut(acc, domains[i].k, EmptySubMap(h, h[l].items, 1, <<>>)))

generate_empty_answers(h, domains) == EmptyAnswersLoop(h, domains, 1, <<>>)

(* empty_answers = generate_empty_answers(domains), on the mapping build c
   returned; the value of that mapping before the call is kept *)
GenerateEmptyAnswers(c) ==
    /\ template = None
    /\ c \in 1..Len(calls) /\ calls[c].outcome = "return"
    /\ LET r == generate_empty_answers(heap, calls[c].domains)
       IN /\ heap' = r.heap
          /\ template' = [status |-> "return", call |-> c, dict |-> r.result,
                          before |-> DomainsValue(heap, calls[c].domains)]
    /\ UNCHANGED <<DOMAINS_COMMON, SECTORS, loaded, calls, nmut, scoreVars, domainVars,
                   analysisVars, classifyVars, loadVars, replayVars>>

NextTemplate ==
    \/ \E s \in SectorArgs : Build(s)
    \/ \E c \in 1..Len(calls) : GenerateEmptyAnswers(c)

SpecTemplate == Init /\ [][NextTemplate]_vars

(* C19: generate_empty_answers returns a map whose keys are exactly the
   domain ids, each with a sub-map whose keys are exactly the ids of that
   domain's questions, those a sector added included, and whose values are
   all None; the domains it was given are as they were. *)
C19_EmptyAnswersShape ==
    template # None =>
        LET c == template.call
            d == template.dict
            b == template.before
        IN /\ Len(d) = Len(b)
           /\ \A i \in 1..Len(b) :
                 /\ d[i].k = b[i].k
                 /\ DictKeys(d[i].v) = {q.id : q \in SeqElems(b[i].v.questions)}
                 /\ Len(d[i].v) = Cardinality(DictKeys(d[i].v))
                 /\ \A j \in 1..Len(d[i].v) : d[i].v[j].v = None
                 /\ KnownSector(c) =>
                       {q.id : q \in SeqElems(ExtraFor(c, b[i].k))} \subseteq DictKeys(d[i].v)
           /\ DomainsValue(heap, calls[c].domains) = b
           /\ b = calls[c].value

(* C19 witness: the form of the build for sector "btp", whose finance
   sub-map has the two common questions and the two the sector added. *)
C19_Witness ==
    /\ template # None
    /\ calls[template.call].sector_id = PyStr("btp")
    /\ DictGet(template.dict, "finance") =
          << [k |-> "f1", v |-> None], [k |-> "f2", v |-> None],
             [k |-> "f_btp_1", v |-> None], [k |-> "f_btp_2", v |-> None] >>

-----------------------------------------------------------------------------
(* load_answers_from_file.  The content of a file is the sequence of tokens
   json's scanner reads it as: [t |-> "{"], "}", "[", "]", ":", ",", "true",
   "false", "null", "Infinity", a string [t |-> "str", s |-> ...] (kept
   whole) or an integer [t |-> "num", n |-> ...].  json.load parses the value
   the tokens spell; a JSON object becomes a dict. *)

PyDict(entries) == [t |-> "dict", v |-> entries]

Tok(ts, i) == IF i \in 1..Len(ts) THEN ts[i] ELSE [t |-> "eof"]
Parsed(v, next) == [ok |-> TRUE, v |-> v, next |-> next]
NoParse == [ok |-> FALSE]

RECURSIVE ParseValue(_, _)
RECURSIVE ParseMembers(_, _, _)
RECURSIVE ParseElements(_, _, _)

(* "key": value, ... } from token i on; a repeated key keeps its last value *)
ParseMembers(ts, i, acc) ==
    IF Tok(ts, i).t = "str" /\ Tok(ts, i + 1).t = ":"
    THEN LET r == ParseValue(ts, i + 2)
         IN IF ~r.ok THEN NoParse
            ELSE IF Tok(ts, r.next).t = ","
            THEN ParseMembers(ts, r.next + 1, DictPut(acc, Tok(ts, i).s, r.v))
            ELSE IF Tok(ts, r.next).t = "}"
            THEN Parsed(PyDict(DictPut(acc, Tok(ts, i).s, r.v)), r.next + 1)
            ELSE NoParse
    ELSE NoParse

(* value, ... ] from token i on *)
ParseElements(ts, i, acc) ==
    LET r == ParseValue(ts, i)
    IN IF ~r.ok THEN NoParse
       ELSE IF Tok(ts, r.next).t = "," THEN ParseElements(ts, r.next + 1, Append(acc, r.v))
       ELSE IF Tok(ts, r.next).t = "]" THEN Parsed(PyList(Append(acc, r.v)), r.next + 1)
       ELSE NoParse

ParseValue(ts, i) ==
    LET k == Tok(ts, i)
    IN CASE k.t = "{" -> IF Tok(ts, i + 1).t = "}" THEN Parsed(PyDict(<<>>), i + 2)
                         ELSE ParseMembers(ts, i + 1, <<>>)
         [] k.t = "[" -> IF Tok(ts, i + 1).t = "]" THEN Parsed(PyList(<<>>), i + 2)
                         ELSE ParseElements(ts, i + 1, <<>>)
         [] k.t = "str" -> Parsed(PyStr(k.s), i + 1)
         [] k.t = "num" -> Parsed(PyInt(k.n), i + 1)
         [] k.t = "true" -> Parsed(PyBool(TRUE), i + 1)
         [] k.t = "false" -> Parsed(PyBool(FALSE), i + 1)
         [] k.t = "null" -> Parsed(None, i + 1)
         [] k.t = "Infinity" -> Parsed(PyFloatSpecial("inf"), i + 1)
         [] OTHER -> NoParse

(* json.load(f): one value and nothing after it, or JSONDecodeError *)
json_load(ts) ==
    LET r == ParseValue(ts, 1)
    IN IF r.ok /\ r.next = Len(ts) + 1 THEN [status |-> "return", value |-> r.v]
       ELSE Fail("JSONDecodeError")

load_answers_from_file(fs, path) ==
    IF ~DictHas(fs, path) THEN Fail("FileNotFoundError")
    ELSE json_load(DictGet(fs, path))

(* The files the loader is run on *)
P(x) == [t |-> x]
S(x) == [t |-> "str", s |-> x]
N(x) == [t |-> "num", n |-> x]

(* What a document can give as the value of a domain id *)
Fragments ==
    { << P("{"), P("}") >>,
      << P("{"), S("q1"), P(":"), N(4), P("}") >>,
      << P("{"), S("q1"), P(":"), N(4), P(","), S("q2"), P(":"), P("true"), P("}") >>,
      << P("{"), S("q1"), P(":"), P("null"), P("}") >>,
      << N(4) >>,
      << P("[") , N(4), P("]") >>,
      << P("null") >>,
      << S("abc") >>,
      << P("{"), S("q1"), P(":"), P("}") >>,
      << P("{"), S("q1"), P(":"), N(4) >> }

Contents ==
    { << P("{"), S("finance"), P(":") >> \o x \o << P("}") >> : x \in Fragments }
    \cup { << P("{"), S("finance"), P(":") >> \o x \o << P(","), S("rh"), P(":") >>
              \o y \o << P("}") >> : x \in Fragments, y \in Fragments }
    \cup { <<>>,
           << P("{"), P("}") >>,
           << P("["), P("]") >>,
           << P("["), N(1), P(","), N(2), P("]") >>,
           << P("["), N(1), P(","), P("]") >>,
           << N(4) >>,
           << P("null") >>,
           << P("{"), P("}"), P("{"), P("}") >>,
           << P("{"), S("finance"), P(":"), P("{"), P("}"), P(","), P("}") >>,
           << P("{"), S("finance"), P("{"), P("}"), P("}") >>,
           << P("{"), N(1), P(":"), P("{"), P("}"), P("}") >> }

AnswerPaths == {"data/reponses.json", "data/autre.json"}

FileSystems ==
    {<<>>} \cup {<< [k |-> "data/reponses.json", v |-> c] >> : c \in Contents}

(* all_answers = load_answers_from_file(str(answers_path)) *)
LoadAnswersFromFile ==
    /\ loaded_answers = None
    /\ loaded_answers' = load_answers_from_file(files, path_arg)
    /\ UNCHANGED <<buildVars, scoreVars, domainVars, analysisVars, classifyVars,
                   templateVars, files, path_arg, replayVars>>

InitLoad ==
    /\ CatalogueLoaded(DocA)
    /\ calls = <<>>
    /\ nmut = 0
    /\ question = None /\ answer = None /\ result = None
    /\ domain_arg = None /\ answers_arg = None /\ domain_score = None
    /\ domains_arg = None /\ all_answers_arg = None
    /\ domain_scores = None /\ weak_points = None /\ strong_points = None
    /\ score_arg = None /\ level = None
    /\ template = None
    /\ files \in FileSystems /\ path_arg \in AnswerPaths /\ loaded_answers = None
    /\ new_answers = None /\ new_scores = None

NextLoad == LoadAnswersFromFile

SpecLoad == InitLoad /\ [][NextLoad]_vars

(* The shape of an answer set: a mapping whose values are all mappings *)
IsAnswerSet(v) ==
    v.t = "dict" /\ \A i \in 1..Len(v.v) : v.v[i].v.t = "dict"

(* C20: load_answers_from_file fails with FileNotFoundError when the path
   names no file, fails with a parse error when the content is not a
   well-formed document of the answer-set shape (a list, a domain mapped to
   something that is no mapping), and returns an answer set otherwise. *)
C20_LoadFailsUnlessAnswerSet ==
    loaded_answers # None =>
        /\ ~DictHas(files, path_arg) => loaded_answers.status = "FileNotFoundError"
        /\ DictHas(files, path_arg) =>
              loaded_answers.status \in {"return", "JSONDecodeError"}
        /\ loaded_answers.status = "return" => IsAnswerSet(loaded_answers.value)

-----------------------------------------------------------------------------
(* load_questions on catalogue documents whose questions give every kind of
   weight: none, a positive one, zero, a negative one *)

WeightChoices == {None, PyFloat(5), PyInt(0), PyFloat(0 - 15)}

(* One question entry of the document; w = None stands for no "weight" key *)
WeightedQuestion(id, type, w) ==
    IF w = None THEN [id |-> id, type |-> type, text |-> "t"]
    ELSE [id |-> id, type |-> type, text |-> "t", weight |-> w]

WeightDoc(w1, w2) ==
    [domains |-> <<
        [id |-> "finance", label |-> "Finance", description |-> "f",
         questions |-> << WeightedQuestion("f1", "stars", w1) >>] >>,
     sectors |-> <<
        [id |-> "tech", label |-> "Tech",
         extra_questions |-> <<
            [k |-> "finance", v |-> << WeightedQuestion("f_tech_1", "boolean", w2) >>] >>] >>]

WeightDocs == {WeightDoc(w1, w2) : w1 \in WeightChoices, w2 \in WeightChoices}

InitWeights ==
    /\ \E data \in WeightDocs : CatalogueLoaded(data)
    /\ calls = <<>>
    /\ nmut = 0
    /\ question = None /\ answer = None /\ result = None
    /\ domain_arg = None /\ answers_arg = None /\ domain_score = None
    /\ domains_arg = None /\ all_answers_arg = None
    /\ domain_scores = None /\ weak_points = None /\ strong_points = None
    /\ score_arg = None /\ level = None
    /\ template = None
    /\ files = None /\ path_arg = None /\ loaded_answers = None
    /\ new_answers = None /\ new_scores = None

NextWeights == \E s \in SectorArgs : Build(s)

SpecWeights == InitWeights /\ [][NextWeights]_vars

(* The Question objects the loaded catalogue holds: those of the common
   domains and those of the sectors' extra questions *)
CatalogueQuestions ==
    {a \in DomainsObjects(heap, DOMAINS_COMMON) \cup SectorsObjects(heap, SECTORS) :
        heap[a].kind = "Question"}

(* C21: every Question of the loaded catalogue, in a common domain or in a
   sector's extra questions, has a weight greater than zero, whatever weight
   the document gave. *)
C21_LoadedWeightsPositive ==
    \A a \in CatalogueQuestions : float(heap[a].weight).s = 1

-----------------------------------------------------------------------------
(* dashboard.py: classify_score, the badge shown next to a domain score or
   the global score, applied to the scores score_global returned once the
   weak and strong points have been extracted *)

(* Faulty variant: the tier "Bon" is missing, 60 to 75 falls to "Moyen" *)
classify_score_no_bon(score) ==
    IF FloatCmp(score, FloatOfInt(75)) >= 0 THEN <<"Fort", "pill-ok">>
    ELSE IF FloatCmp(score, FloatOfInt(40)) >= 0 THEN <<"Moyen", "pill-mid">>
    ELSE IF FloatCmp(score, FloatOfInt(20)) >= 0 THEN <<"À améliorer", "pill-bad">>
    ELSE <<"Critique", "pill-bad">>

classify_score(score) ==
    IF FloatCmp(score, FloatOfInt(75)) >= 0 THEN <<"Fort", "pill-ok">>
    ELSE IF FloatCmp(score, FloatOfInt(60)) >= 0 THEN <<"Bon", "pill-ok">>
    ELSE IF FloatCmp(score, FloatOfInt(40)) >= 0 THEN <<"Moyen", "pill-mid">>
    ELSE IF FloatCmp(score, FloatOfInt(20)) >= 0 THEN <<"À améliorer", "pill-bad">>
    ELSE <<"Critique", "pill-bad">>

ReturnPair(x) == [status |-> "return", label |-> x[1], css |-> x[2]]

(* level, css_class = classify_score(score), for the score of entry k *)
ClassifyScore(k) ==
    /\ strong_points # None /\ level = None
    /\ domain_scores.status = "return" /\ DictHas(domain_scores.dict, k)
    /\ score_arg' = DictGet(domain_scores.dict, k)
    /\ level' = ReturnPair(classify_score(DictGet(domain_scores.dict, k)))
    /\ UNCHANGED <<buildVars, scoreVars, domainVars, analysisVars, templateVars, loadVars, replayVars>>

(* {"q1": a, "q2": b} where 0 stands for no entry: scores 15 a + 5 b on an
   AnalysisDomain, so every multiple of 5 up to 100 *)
PartlyRated(a, b) ==
    (IF a = 0 THEN <<>> ELSE << [k |-> "q1", v |-> PyInt(a)] >>)
        \o (IF b = 0 THEN <<>> ELSE << [k |-> "q2", v |-> PyInt(b)] >>)

PresentationAnswers ==
    {<<>>} \cup {<< [k |-> "finance", v |-> PartlyRated(a, b)] >> : a \in 0..5, b \in 0..5}

InitPresentation ==
    /\ CatalogueLoaded(DocA)
    /\ calls = <<>>
    /\ nmut = 0
    /\ question = None /\ answer = None /\ result = None
    /\ domain_arg = None /\ answers_arg = None /\ domain_score = None
    /\ domains_arg = AnalysisDomains(1)
    /\ all_answers_arg \in PresentationAnswers
    /\ domain_scores = None /\ weak_points = None /\ strong_points = None
    /\ score_arg = None /\ level = None
    /\ template = None
    /\ files = None /\ path_arg = None /\ loaded_answers = None
    /\ new_answers = None /\ new_scores = None

NextPresentation ==
    \/ ScoreGlobal
    \/ ExtractWeakPoints
    \/ ExtractStrongPoints
    \/ \E k \in {"finance", "__global__"} : ClassifyScore(k)

SpecPresentation == InitPresentation /\ [][NextPresentation]_vars

(* The domain finance has an entry among the weak, the strong points *)
IsWeak == DictHas(weak_points.dict, "finance")
IsStrong == DictHas(strong_points.dict, "finance")

(* C22: classify_score gives every score one of five tiers, "Fort" from 75,
   "Bon" from 60 to below 75, "Moyen" from 40 to below 60, "À améliorer" from
   20 to below 40, "Critique" below 20; its tiers are not those of
   classify_domain, and the weak and strong points follow classify_domain
   alone: an answered domain is a weak point exactly when classify_domain
   does not give "fort", whatever badge classify_score gives it. *)
C22_FiveTiers ==
    level # None =>
        /\ level.label \in {"Fort", "Bon", "Moyen", "À améliorer", "Critique"}
        /\ level.label = "Fort" <=> AtLeast(score_arg, 75)
        /\ level.label = "Bon" <=> (AtLeast(score_arg, 60) /\ ~AtLeast(score_arg, 75))
        /\ level.label = "Moyen" <=> (AtLeast(score_arg, 40) /\ ~AtLeast(score_arg, 60))
        /\ level.label = "À améliorer" <=> (AtLeast(score_arg, 20) /\ ~AtLeast(score_arg, 40))
        /\ level.label = "Critique" <=> ~AtLeast(score_arg, 20)
        /\ level.label \in {"Bon", "Moyen"} => classify_domain(score_arg) = "améliorer"
        /\ level.label \in {"À améliorer", "Critique"} => classify_domain(score_arg) = "critique"
        /\ Answered(1) =>
              /\ IsWeak <=> classify_domain(DictGet(domain_scores.dict, "finance")) # "fort"
              /\ IsStrong <=> classify_domain(DictGet(domain_scores.dict, "finance")) = "fort"
              /\ IsWeak # IsStrong
        /\ ~Answered(1) => ~IsWeak /\ ~IsStrong

(* C22 witness: finance scores 60.0, its badge is "Bon" with the class of a
   good score, and it is among the weak points. *)
C22_Witness ==
    /\ score_arg = FloatOfInt(60)
    /\ level = ReturnPair(<<"Bon", "pill-ok">>)
    /\ DictGet(domain_scores.dict, "finance") = FloatOfInt(60)
    /\ IsWeak /\ ~IsStrong

-----------------------------------------------------------------------------
(* The sector templates under builds and caller mutations, checked under Spec *)

(* The questions call c's mapping holds now for domain id k *)
NowFor(c, k) == DomainValue(heap, DictGet(calls[c].domains, k)).questions

(* The last n entries of a sequence *)
LastOf(q, n) == SubSeq(q, Len(q) - n + 1, Len(q))

(* C23: no object of SECTORS is reachable from a mapping a build returned, so
   whatever the caller does to a returned mapping (edit or delete a question
   appended from a sector, append to the list) SECTORS keeps the value it was
   loaded with, and a later build for the same sector appends the original
   extra questions. *)
C23_SectorTemplatesNotAliased ==
    /\ SectorsValue(heap, SECTORS) = loaded.sectors
    /\ \A c \in 1..Len(calls) :
          Returned(c) =>
              /\ DomainsObjects(heap, calls[c].domains) \cap SectorsObjects(heap, SECTORS) = {}
              /\ KnownSector(c) =>
                    \A k \in DictKeys(calls[c].value) :
                        LastOf(DictGet(calls[c].value, k).questions, Len(ExtraFor(c, k)))
                            = ExtraFor(c, k)

(* C23 witness: a known sector was built, the caller changed or deleted the
   last question the sector had appended to a domain, and the same sector was
   built again after that. *)
C23_Witness ==
    /\ Len(calls) >= 2
    /\ KnownSector(1) /\ Returned(1)
    /\ calls[2].sector_id = calls[1].sector_id /\ calls[2].after >= 1 /\ Returned(2)
    /\ \E k \in DictKeys(calls[1].value) :
          /\ ExtraFor(1, k) # <<>>
          /\ Len(NowFor(1, k)) >= Len(ExtraFor(1, k))
          /\ LastOf(NowFor(1, k), Len(ExtraFor(1, k))) # ExtraFor(1, k)
          /\ \/ Len(NowFor(1, k)) < Len(DictGet(calls[1].value, k).questions)
             \/ NowFor(1, k)[Len(NowFor(1, k))].id = "edited"

-----------------------------------------------------------------------------
(* build_domains_for_sector step by step, several calls under way at once
   (one per session of the presentation layer).  Here an entry of calls is
   the frame of a call: its argument, where it stands (pc), its locals
   domains, sector and the position i of its loop over the sector's
   extensions, and once it has ended its outcome and the value returned. *)

(* The call is made *)
BeginBuild(sector_id) ==
    /\ Len(calls) < MaxBuilds
    /\ calls' = Append(calls,
          [sector_id |-> sector_id, pc |-> "copy", domains |-> <<>>, sector |-> 0,
           i |-> 1, outcome |-> "running", value |-> <<>>])
    /\ UNCHANGED <<heap, DOMAINS_COMMON, SECTORS, loaded, nmut, scoreVars, domainVars,
                   analysisVars, classifyVars, templateVars, loadVars, replayVars>>

(* domains = {k: copy.deepcopy(v) for k, v in DOMAINS_COMMON.items()} *)
CopyCatalogueStep(c) ==
    /\ calls[c].pc = "copy"
    /\ LET r == CopyCatalogue(heap, DOMAINS_COMMON, 1, <<>>)
       IN /\ heap' = r.heap
          /\ calls' = [calls EXCEPT ![c].domains = r.dict, ![c].pc = "lookup"]
    /\ UNCHANGED <<DOMAINS_COMMON, SECTORS, loaded, nmut, scoreVars, domainVars,
                   analysisVars, classifyVars, templateVars, loadVars, replayVars>>

(* if sector_id is None: return domains; sector = SECTORS.get(sector_id);
   if sector is None: raise ValueError *)
LookUpSectorStep(c) ==
    /\ calls[c].pc = "lookup"
    /\ calls' =
          IF calls[c].sector_id = None
          THEN [calls EXCEPT ![c].pc = "done", ![c].outcome = "return",
                             ![c].value = DomainsValue(heap, calls[c].domains)]
          ELSE IF ~DictHas(SECTORS, calls[c].sector_id.v)
          THEN [calls EXCEPT ![c].pc = "done", ![c].outcome = "ValueError",
                             ![c].domains = <<>>]
          ELSE [calls EXCEPT ![c].pc = "extend",
                             ![c].sector = DictGet(SECTORS, calls[c].sector_id.v)]
    /\ UNCHANGED <<heap, DOMAINS_COMMON, SECTORS, loaded, nmut, scoreVars, domainVars,
                   analysisVars, classifyVars, templateVars, loadVars, replayVars>>

(* One turn of the loop over sector.extra_questions.items(), or, the loop
   over, return domains *)
ExtendStep(c) ==
    /\ calls[c].pc = "extend"
    /\ LET extra == heap[calls[c].sector].extra_questions
           i == calls[c].i
       IN IF i > Len(extra)
          THEN /\ calls' = [calls EXCEPT ![c].pc = "done", ![c].outcome = "return",
                                         ![c].value = DomainsValue(heap, calls[c].domains)]
               /\ heap' = heap
          ELSE /\ calls' = [calls EXCEPT ![c].i = i + 1]
               /\ heap' = IF DictHas(calls[c].domains, extra[i].k)
                          THEN ExtendQuestions(heap, DictGet(calls[c].domains, extra[i].k),
                                               extra[i].v)
                          ELSE heap
    /\ UNCHANGED <<DOMAINS_COMMON, SECTORS, loaded, nmut, scoreVars, domainVars,
                   analysisVars, classifyVars, templateVars, loadVars, replayVars>>

NextInterleaved ==
    \/ \E s \in SectorArgs : BeginBuild(s)
    \/ \E c \in 1..Len(calls) : CopyCatalogueStep(c)
    \/ \E c \in 1..Len(calls) : LookUpSectorStep(c)
    \/ \E c \in 1..Len(calls) : ExtendStep(c)

SpecInterleaved == Init /\ [][NextInterleaved]_vars

(* What the call made alone on the catalogue would end with and return *)
Alone(sector_id) == build_domains_for_sector(heap, DOMAINS_COMMON, SECTORS, sector_id)
AloneValue(sector_id) == DomainsValue(Alone(sector_id).heap, Alone(sector_id).domains)

(* The objects call c holds in its local domains *)
FrameObjects(c) == DomainsObjects(heap, calls[c].domains)

(* p is a leading part of q *)
IsPrefix(p, q) == Len(p) <= Len(q) /\ SubSeq(q, 1, Len(p)) = p

(* C24: with calls interleaved step by step, a call that has ended has the
   outcome and the value it has when made alone; the catalogue keeps its
   loaded value; calls share no object with each other or the catalogue; and
   at every step a call's domains hold the common questions followed by a
   leading part of its own sector's extensions, nothing of another call's. *)
C24_InterleavedAsAlone ==
    /\ DomainsValue(heap, DOMAINS_COMMON) = loaded.domains
    /\ SectorsValue(heap, SECTORS) = loaded.sectors
    /\ \A c \in 1..Len(calls) :
          /\ calls[c].pc = "done" =>
                /\ calls[c].outcome = Alone(calls[c].sector_id).outcome
                /\ calls[c].outcome = "return" =>
                      /\ calls[c].value = AloneValue(calls[c].sector_id)
                      /\ DomainsValue(heap, calls[c].domains) = calls[c].value
          /\ FrameObjects(c) \cap
                (DomainsObjects(heap, DOMAINS_COMMON) \cup SectorsObjects(heap, SECTORS)) = {}
          /\ \A c2 \in 1..Len(calls) : c2 # c => FrameObjects(c) \cap FrameObjects(c2) = {}
          /\ \A j \in 1..Len(calls[c].domains) :
                LET k == calls[c].domains[j].k
                    base == DictGet(loaded.domains, k).questions
                IN /\ IsPrefix(base, NowFor(c, k))
                   /\ IsPrefix(NowFor(c, k),
                               base \o (IF KnownSector(c) THEN ExtraFor(c, k) ELSE <<>>))

(* C24 witness: two calls for known sectors have both returned with their
   extensions appended, and the second call copied the catalogue before the
   first call made its last append. *)
C24_Witness ==
    /\ Len(calls) = 2
    /\ \A c \in 1..2 :
          /\ KnownSector(c) /\ calls[c].pc = "done" /\ Returned(c)
          /\ \E k \in DictKeys(calls[c].value) :
                ExtraFor(c, k) # <<>> /\ NowFor(c, k) # DictGet(loaded.domains, k).questions
    /\ \E a \in FrameObjects(1), b \in FrameObjects(2) : b < a

-----------------------------------------------------------------------------
(* The analysis on the edges of its inputs: a domain whose id is the key
   score_global keeps for the mean, a question of a kind score_question does
   not know, sub-maps that hold only nulls (the template of
   generate_empty_answers) or only ids the domain has not *)

ReportIds == <<"finance", "__global__">>

(* A domain of a rating of weight 3 and a question of the given kind *)
ReportDomain(id, kind) ==
    [id |-> id, label |-> "L", description |-> "",
     questions |-> << [id |-> "q1", type |-> "stars", text |-> "t", weight |-> PyInt(3)],
                      [id |-> "q2", type |-> kind, text |-> "t", weight |-> PyFloat(10)] >>]

ReportKinds == {"stars", "text"}

ReportDomainSets ==
    {<< [k |-> ReportIds[i], v |-> ReportDomain(ReportIds[i], kind)] >> :
        i \in 1..2, kind \in ReportKinds}
    \cup
    {<< [k |-> ReportIds[i], v |-> ReportDomain(ReportIds[i], k1)],
        [k |-> ReportIds[3 - i], v |-> ReportDomain(ReportIds[3 - i], k2)] >> :
        i \in 1..2, k1 \in ReportKinds, k2 \in ReportKinds}

NullOnly == << [k |-> "q1", v |-> None], [k |-> "q2", v |-> None] >>
ForeignOnly == << [k |-> "zz", v |-> PyInt(5)] >>

ReportSubMaps ==
    {<<>>, NullOnly, ForeignOnly, Rated(2, 0), Rated(5, 3), Rated(5, 3) \o ForeignOnly}

ReportChoices ==
    {[has |-> FALSE, map |-> <<>>]} \cup {[has |-> TRUE, map |-> m] : m \in ReportSubMaps}

ReportEntry(c, i) == IF c[i].has THEN << [k |-> ReportIds[i], v |-> c[i].map] >> ELSE <<>>

ReportAnswers == {ReportEntry(c, 1) \o ReportEntry(c, 2) : c \in [1..2 -> ReportChoices]}

InitReport ==
    /\ CatalogueLoaded(DocA)
    /\ calls = <<>>
    /\ nmut = 0
    /\ question = None /\ answer = None /\ result = None
    /\ domain_arg = None /\ answers_arg = None /\ domain_score = None
    /\ domains_arg \in ReportDomainSets
    /\ all_answers_arg \in ReportAnswers
    /\ domain_scores = None /\ weak_points = None /\ strong_points = None
    /\ score_arg = None /\ level = None
    /\ template = None
    /\ files = None /\ path_arg = None /\ loaded_answers = None
    /\ new_answers = None /\ new_scores = None

NextReport == ScoreGlobal \/ ExtractWeakPoints \/ ExtractStrongPoints

SpecReport == InitReport /\ [][NextReport]_vars

(* The three results are there and none is a failure *)
AllReturned ==
    /\ domain_scores # None /\ weak_points # None /\ strong_points # None
    /\ domain_scores.status = "return"
    /\ weak_points.status = "return"
    /\ strong_points.status = "return"

AnsweredIds == {domains_arg[i].k : i \in {j \in 1..NDomains : Answered(j)}}

(* The score the extractions report for domain i *)
Reported(i) ==
    IF DictHas(weak_points.dict, domains_arg[i].k)
    THEN DictGet(weak_points.dict, domains_arg[i].k)
    ELSE DictGet(strong_points.dict, domains_arg[i].k)

(* C25, as claimed: the weak points and the strong points have no key in
   common, together they hold exactly the domains with a non-empty sub-map,
   and the score reported for a domain is the entry score_global has under
   the domain's id. *)
C25_PartitionWithGlobalEntries ==
    AllReturned =>
        /\ DictKeys(weak_points.dict) \cap DictKeys(strong_points.dict) = {}
        /\ DictKeys(weak_points.dict) \cup DictKeys(strong_points.dict) = AnsweredIds
        /\ \A i \in 1..NDomains :
              Answered(i) => Reported(i) = DictGet(domain_scores.dict, domains_arg[i].k)

(* C25, amended: the weak points and the strong points have no key in common,
   together they hold exactly the domains with a non-empty sub-map, and the
   score reported for a domain is score_domain of that domain, which is the
   entry score_global has under the domain's id unless the id is __global__:
   under that key score_global has the mean. *)
C25_PartitionOfAnswered ==
    AllReturned =>
        /\ DictKeys(weak_points.dict) \cap DictKeys(strong_points.dict) = {}
        /\ DictKeys(weak_points.dict) \cup DictKeys(strong_points.dict) = AnsweredIds
        /\ \A i \in 1..NDomains :
              Answered(i) =>
                 /\ Reported(i) = DomainScore(i)
                 /\ domains_arg[i].k # "__global__" =>
                       Reported(i) = DictGet(domain_scores.dict, domains_arg[i].k)

(* C25 witness: finance (90) is a strong point and the domain __global__ (30)
   a weak point, while score_global has the mean 60 under __global__. *)
C25_Witness ==
    /\ AllReturned
    /\ NDomains = 2
    /\ DictKeys(strong_points.dict) = {"finance"}
    /\ weak_points.dict = << [k |-> "__global__", v |-> FloatOfInt(30)] >>
    /\ GlobalOf(domain_scores) = FloatOfInt(60)

(* The ids of the questions of domain i, and the entries of its sub-map that
   are for one of them *)
QuestionIdsOf(i) == {domains_arg[i].v.questions[j].id : j \in 1..Len(domains_arg[i].v.questions)}
IsOwnEntry(i, entry) == entry.k \in QuestionIdsOf(i)
OwnEntries(i) ==
    LET m == SubMapOf(i)
        own == {e \in 1..Len(m) : IsOwnEntry(i, m[e])}
        Nth(n) == CHOOSE e \in own : Cardinality({f \in own : f < e}) = n - 1
    IN [n \in 1..Cardinality(own) |-> m[Nth(n)]]

(* The sub-map of domain i has keys, but no answer to a question of the
   domain: every entry is null or is for an id the domain has not *)
AnsweredByNothing(i) ==
    /\ Answered(i)
    /\ \A e \in 1..Len(SubMapOf(i)) :
          SubMapOf(i)[e].v = None \/ ~IsOwnEntry(i, SubMapOf(i)[e])

(* C26: a sub-map with at least one key makes its domain answered, whatever
   the keys and values: a domain whose sub-map holds only nulls or only ids
   of other questions scores 0.0, counts in the denominator of the mean, and
   is a weak point with 0.0; and entries for ids the domain has not never
   change the domain's score. *)
C26_AnyKeyCountsAsAnswered ==
    /\ (domain_scores # None /\ domain_scores.status = "return") =>
          /\ GlobalOf(domain_scores) =
                IF AnsweredCount > 0
                THEN FloatQuot(AnsweredFloatSum(NDomains), FloatOfInt(AnsweredCount))
                ELSE FZero
          /\ \A i \in 1..NDomains :
                /\ DomainScore(i) = score_domain(domains_arg[i].v, OwnEntries(i)).float
                /\ AnsweredByNothing(i) =>
                      /\ DomainScore(i) = FZero
                      /\ domains_arg[i].k # "__global__" =>
                            DictGet(domain_scores.dict, domains_arg[i].k) = FZero
    /\ (weak_points # None /\ weak_points.status = "return") =>
          \A i \in 1..NDomains :
              AnsweredByNothing(i) =>
                  /\ DictHas(weak_points.dict, domains_arg[i].k)
                  /\ DictGet(weak_points.dict, domains_arg[i].k) = FZero

(* C26 witness: finance has the sub-map of nulls and the other domain scores
   90: finance has the entry 0.0, the mean is 45 (two domains counted), and
   finance is the one weak point, with 0.0; in another state the sub-map with
   an id of no question gives the same. *)
C26_Witness ==
    /\ AllReturned
    /\ NDomains = 2
    /\ SubMapOf(1) \in {NullOnly, ForeignOnly} /\ SubMapOf(2) = Rated(5, 3)
    /\ domains_arg[1].k = "finance"
    /\ DictGet(domain_scores.dict, "finance") = FZero
    /\ GlobalOf(domain_scores) = FloatOfInt(45)
    /\ weak_points.dict = << [k |-> "finance", v |-> FZero] >>

(* Domain i has a question of a kind score_question does not know *)
HasUnknownKind(i) ==
    \E j \in 1..Len(domains_arg[i].v.questions) :
        domains_arg[i].v.questions[j].type \notin {"stars", "boolean"}

AnyUnknownKind == \E i \in 1..NDomains : HasUnknownKind(i)
AnsweredUnknownKind == \E i \in 1..NDomains : HasUnknownKind(i) /\ Answered(i)

(* C27: score_global fails, with the error of score_question and no score
   map, exactly when some domain has a question of unknown kind, answered or
   not; extract_weak_points and extract_strong_points fail exactly when such
   a domain has a non-empty sub-map, and return their mapping otherwise. *)
C27_UnknownKindAborts ==
    /\ domain_scores # None =>
          IF AnyUnknownKind THEN domain_scores = Fail("ValueError")
          ELSE domain_scores.status = "return"
    /\ weak_points # None =>
          IF AnsweredUnknownKind THEN weak_points = Fail("ValueError")
          ELSE weak_points.status = "return"
    /\ strong_points # None =>
          IF AnsweredUnknownKind THEN strong_points = Fail("ValueError")
          ELSE strong_points.status = "return"

(* C27 witness: the one domain with a question of unknown kind has no
   answers and the other domain scores 90: score_global failed, and both
   extractions returned, the strong points with the other domain. *)
C27_Witness ==
    /\ NDomains = 2
    /\ AnyUnknownKind /\ ~AnsweredUnknownKind
    /\ domain_scores = Fail("ValueError")
    /\ weak_points = ReturnDict(<<>>)
    /\ strong_points # None
    /\ strong_points.status = "return" /\ Len(strong_points.dict) = 1

(* The domains whose id is the key of the mean *)
NamedGlobal == {i \in 1..NDomains : domains_arg[i].k = "__global__"}

(* The mean score_global computes: the float sum of the scores of the
   answered domains, left to right, over their count; 0.0 without any *)
MeanOfAnswered ==
    IF AnsweredCount > 0
    THEN FloatQuot(AnsweredFloatSum(NDomains), FloatOfInt(AnsweredCount))
    ELSE FZero

(* C30: whatever the domain ids, the entry __global__ of score_global's
   result is the mean over the answered domains. When a domain's id is
   __global__, the result has one entry per domain and no more, the entry at
   that domain's place holds the mean and not the domain's score, every other
   domain keeps its score, and the domain's score is in the mean when the
   domain is answered; without such a domain the mean is one more entry,
   the last. *)
C30_GlobalKeyHoldsMean ==
    (domain_scores # None /\ domain_scores.status = "return") =>
        /\ GlobalOf(domain_scores) = MeanOfAnswered
        /\ \A i \in 1..NDomains :
              /\ domain_scores.dict[i].k = domains_arg[i].k
              /\ domain_scores.dict[i].v =
                    IF i \in NamedGlobal THEN MeanOfAnswered ELSE DomainScore(i)
        /\ NamedGlobal # {} => Len(domain_scores.dict) = NDomains
        /\ NamedGlobal = {} =>
              /\ Len(domain_scores.dict) = NDomains + 1
              /\ domain_scores.dict[NDomains + 1].k = "__global__"

(* C30 witness: the domain __global__ comes first and scores 30, finance
   scores 90: the result has two entries, the mean 60 under __global__ at the
   first place, and 30 is in no entry. *)
C30_Witness ==
    /\ NDomains = 2
    /\ domains_arg[1].k = "__global__"
    /\ SubMapOf(1) = Rated(2, 0) /\ SubMapOf(2) = Rated(5, 3)
    /\ domain_scores = ReturnDict(<< [k |-> "__global__", v |-> FloatOfInt(60)],
                                     [k |-> "finance", v |-> FloatOfInt(90)] >>)
    /\ DomainScore(1) = FloatOfInt(30)

-----------------------------------------------------------------------------
(* The analysis run twice: on an answer set, and again after one answer of
   the set has been replaced (the answers file edited and loaded again).
   The first domain has two ratings of weights 0.3 and 0.6, the second a
   rating of weight 3 and a yes/no question of weight 1.0. *)

MonotoneWeights == << <<PyFloat(3), PyFloat(6)>>, <<PyInt(3), PyFloat(10)>> >>
MonotoneTypes == << <<"stars", "stars">>, <<"stars", "boolean">> >>

MonotoneDomain(i) ==
    [id |-> AnalysisDomainIds[i], label |-> "L", description |-> "",
     questions |-> << [id |-> "q1", type |-> MonotoneTypes[i][1], text |-> "t",
                       weight |-> MonotoneWeights[i][1]],
                      [id |-> "q2", type |-> MonotoneTypes[i][2], text |-> "t",
                       weight |-> MonotoneWeights[i][2]] >>]

MonotoneDomains == [i \in 1..2 |-> [k |-> AnalysisDomainIds[i], v |-> MonotoneDomain(i)]]

MonotoneSubMaps == {PartlyRated(a, b) : a \in {0, 2, 5}, b \in {0, 2, 5}}

MonotoneAnswers ==
    {<< [k |-> AnalysisDomainIds[1], v |-> s1], [k |-> AnalysisDomainIds[2], v |-> s2] >> :
        s1 \in MonotoneSubMaps, s2 \in MonotoneSubMaps}

Replacements == {PyInt(1), PyInt(4), PyBool(FALSE), PyBool(TRUE)}

(* The answers file, with the answer to question j of domain i set to a *)
ReplaceAnswer(i, j, a) ==
    /\ domain_scores # None /\ new_answers = None
    /\ new_answers' = DictPut(all_answers_arg, domains_arg[i].k,
                              DictPut(SubMapOf(i), domains_arg[i].v.questions[j].id, a))
    /\ UNCHANGED <<buildVars, scoreVars, domainVars, analysisVars, classifyVars,
                   templateVars, loadVars, new_scores>>

(* domain_scores = score_global(domains, all_answers), on the new answers *)
ScoreGlobalAgain ==
    /\ new_answers # None /\ new_scores = None
    /\ new_scores' = score_global(domains_arg, new_answers)
    /\ UNCHANGED <<buildVars, scoreVars, domainVars, analysisVars, classifyVars,
                   templateVars, loadVars, new_answers>>

InitMonotone ==
    /\ CatalogueLoaded(DocA)
    /\ calls = <<>>
    /\ nmut = 0
    /\ question = None /\ answer = None /\ result = None
    /\ domain_arg = None /\ answers_arg = None /\ domain_score = None
    /\ domains_arg = MonotoneDomains
    /\ all_answers_arg \in MonotoneAnswers
    /\ domain_scores = None /\ weak_points = None /\ strong_points = None
    /\ score_arg = None /\ level = None
    /\ template = None
    /\ files = None /\ path_arg = None /\ loaded_answers = None
    /\ new_answers = None /\ new_scores = None

NextMonotone ==
    \/ ScoreGlobal
    \/ \E i \in 1..2, j \in 1..2, a \in Replacements : ReplaceAnswer(i, j, a)
    \/ ScoreGlobalAgain

SpecMonotone == InitMonotone /\ [][NextMonotone]_vars

NewSubMapOf(i) == GetOrEmpty(new_answers, domains_arg[i].k)

(* The score of question j of domain i under the sub-map m *)
ScoreUnder(i, j, m) ==
    score_question(domains_arg[i].v.questions[j],
                   Get(m, domains_arg[i].v.questions[j].id)).value

(* No question of domain i scores less under the new answers *)
NotLowered(i) ==
    \A j \in 1..Len(domains_arg[i].v.questions) :
        ScoreUnder(i, j, NewSubMapOf(i)) >= ScoreUnder(i, j, SubMapOf(i))

SameAnswered == \A i \in 1..NDomains : (NewSubMapOf(i) # <<>>) = Answered(i)

EntryOf(r, i) == DictGet(r.dict, domains_arg[i].k)

BothScored ==
    /\ domain_scores # None /\ new_scores # None
    /\ domain_scores.status = "return" /\ new_scores.status = "return"

(* C28: with positive weights, when an answer is replaced by one that scores
   at least as much, the score of its domain is not lowered, and the global
   mean is not lowered either when the same domains are answered before and
   after. *)
C28_Monotonic ==
    BothScored =>
        /\ \A i \in 1..NDomains :
              NotLowered(i) => FloatCmp(EntryOf(new_scores, i), EntryOf(domain_scores, i)) >= 0
        /\ ((\A i \in 1..NDomains : NotLowered(i)) /\ SameAnswered) =>
              FloatCmp(GlobalOf(new_scores), GlobalOf(domain_scores)) >= 0

(* C28 witness: the rating 2 of a question of weight 0.3 was replaced by 4,
   both domains answered before and after: the domain's score and the mean
   have both risen. *)
C28_Witness ==
    /\ BothScored
    /\ SameAnswered /\ Answered(1) /\ Answered(2)
    /\ Get(SubMapOf(1), "q1") = PyInt(2) /\ Get(NewSubMapOf(1), "q1") = PyInt(4)
    /\ FloatCmp(EntryOf(new_scores, 1), EntryOf(domain_scores, 1)) > 0
    /\ FloatCmp(GlobalOf(new_scores), GlobalOf(domain_scores)) > 0

-----------------------------------------------------------------------------
(* A questionnaire built, its empty answer form generated and one of its
   domains scored.  In the second catalogue document the sector "tech" gives
   the domain finance a question whose id, f1, the domain has already. *)

(* The answer maps a built domain is scored on: none, or one answer to one
   of its questions *)
BuiltAnswerMaps(domain) ==
    {<<>>} \cup {<< [k |-> q.id, v |-> a] >> :
                    q \in SeqElems(domain.questions), a \in {PyInt(4), PyBool(TRUE)}}

(* score_domain(domains[k], answers) on the mapping build c returned *)
ScoreBuiltDomain(c, k, answers) ==
    /\ domain_score = None
    /\ c \in 1..Len(calls) /\ calls[c].outcome = "return"
    /\ DictHas(calls[c].domains, k)
    /\ domain_arg' = DomainValue(heap, DictGet(calls[c].domains, k))
    /\ answers_arg' = answers
    /\ domain_score' = score_domain(DomainValue(heap, DictGet(calls[c].domains, k)), answers)
    /\ UNCHANGED <<buildVars, scoreVars, analysisVars, classifyVars, templateVars,
                   loadVars, replayVars>>

NextDuplicates ==
    \/ \E s \in SectorArgs : Build(s)
    \/ \E c \in 1..Len(calls) : GenerateEmptyAnswers(c)
    \/ \E c \in 1..Len(calls) : \E k \in DictKeys(calls[c].domains) :
          \E answers \in BuiltAnswerMaps(DomainValue(heap, DictGet(calls[c].domains, k))) :
              ScoreBuiltDomain(c, k, answers)

SpecDuplicates == Init /\ [][NextDuplicates]_vars

(* How many entries of the question list qs have the id *)
Occurrences(qs, id) == Cardinality({i \in 1..Len(qs) : qs[i].id = id})

IdsOf(qs) == {qs[i].id : i \in 1..Len(qs)}

(* C29: a question id that occurs twice in a domain's final list stays twice:
   a build keeps every occurrence of the common questions and of the
   sector's, score_domain takes every occurrence into the weighted mean, each
   scored on the one answer given for the id and each with its weight in the
   denominator, and generate_empty_answers has one entry per id. *)
C29_DuplicatesKept ==
    /\ \A c \in 1..Len(calls) :
          (Returned(c) /\ KnownSector(c)) =>
              \A k \in DictKeys(calls[c].value) :
                  LET base == DictGet(loaded.domains, k).questions
                      got == DictGet(calls[c].value, k).questions
                  IN \A id \in IdsOf(base) \cup IdsOf(ExtraFor(c, k)) :
                        Occurrences(got, id)
                            = Occurrences(base, id) + Occurrences(ExtraFor(c, k), id)
    /\ (DomainScored /\ NQuestions > 0) =>
          /\ domain_score.status = "return"
          /\ domain_score.float = ExactMean
    /\ template # None =>
          \A i \in 1..Len(template.before) :
              /\ Len(template.dict[i].v) = Cardinality(IdsOf(template.before[i].v.questions))
              /\ \A id \in IdsOf(template.before[i].v.questions) :
                    Cardinality({e \in 1..Len(template.dict[i].v) :
                                    template.dict[i].v[e].k = id}) = 1

(* C29 witness: in the build for "tech" the domain finance has the id f1
   twice, a rating and a yes/no question; scored on the answer 4 for f1 the
   domain has (80 + 100) / 2 = 90; and the form has the one entry f1. *)
C29_Witness ==
    /\ DomainScored /\ template # None
    /\ calls[template.call].sector_id = PyStr("tech")
    /\ DictGet(template.dict, "finance") = << [k |-> "f1", v |-> None] >>
    /\ NQuestions = 2
    /\ domain_arg.questions[1].id = "f1" /\ domain_arg.questions[2].id = "f1"
    /\ answers_arg = << [k |-> "f1", v |-> PyInt(4)] >>
    /\ domain_score = ReturnFloat(FloatOfInt(90))

=============================================================================
